---- MODULE Spec2Model ----
(***************************************************************************)
(* Verification model of the universal-middleware core:                    *)
(*   - cache engine         (RedisCache: Get / Set / SetNegative /         *)
(*                           GetOrFetch over golang.org/x/sync/singleflight)*)
(*   - command ingress      (CommandService.SubmitCommand and its SQL)     *)
(*   - outbox relay         (outbox.Processor + outbox.Repository, and     *)
(*                           command.OutboxProcessor)                      *)
(*   - real-time hub        (websocket.EnhancedHub + websocket.Client)     *)
(*   - command processor    (command.Processor, command.Validator)         *)
(*   - circuit breaker      (middleware.CircuitBreaker)                    *)
(* Each component has its own specification over the shared state; the     *)
(* variables of the other components stay at their initial values.         *)
(***************************************************************************)
EXTENDS Naturals, Integers, Sequences, FiniteSets, TLC

VARIABLES
    \* ---- cache engine ----
    redis,        \* substrate key/value store: key -> value, Nil when absent
    sfCalls,      \* singleflight.Group.m: key -> in-flight call record, NoCall when none
    gfPc,         \* position of each GetOrFetch caller
    gfFirst,      \* CacheMeta.Status of the caller's first Get ("" before it)
    gfRet,        \* what the caller returned: [val, status, err]
    loaderKind,   \* what the loader (fetcher) returns in this behaviour
    loaderCalls,  \* number of fetcher invocations so far
    gfIssuedAt,   \* ghost: loaderCalls when the caller issued its GetOrFetch
    gfLoaded,     \* ghost: whether the caller's own flight invoked the fetcher
    expiry,       \* TTL the substrate stored with each key (seconds), NoExpiry when absent
    baseTTL,      \* CacheOptions.BaseTTL (seconds)
    inv,          \* the running InvalidateByPattern call
    \* ---- command ingress ----
    commands,     \* commands table: set of command ids
    outbox,       \* outbox_messages table: id -> row, committed rows only
    idemKeys,     \* idempotency_keys table: key -> command id, committed rows only
    statusCache,  \* redis "cmd:status:<id>" entries: set of command ids
    nextId,       \* source of fresh uuids (uuid.New)
    clock,        \* logical time (time.Now)
    subPc,        \* position of each SubmitCommand call
    subCmd,       \* the *Command of each call: [id, key, entity]
    subTx,        \* the call's open transaction: [outbox, idem] written, not committed
    subRet,       \* what the call returned: [id, status, err]
    \* ---- outbox relay ----
    relayKind,    \* which relay implementation each instance runs
    relayPc,      \* position of each relay instance
    relayBatch,   \* messages fetched by the instance and not yet processed
    relayCur,     \* the message being processed (snapshot taken at fetch time)
    topicLog,     \* event log: sequence of message ids in publication order
    crashes,      \* number of relay crashes so far
    relayCtx,     \* the context handed to Processor.Start: "live" | "cancelled"
    lostMarks,    \* ghost: ids whose MarkAsPublished / MarkAsFailed returned an error
    cleanupRet,   \* the last CleanupPublishedMessages: its number, its argument, the count returned
    \* ---- real-time hub ----
    clients,      \* EnhancedHub.clients
    rooms,        \* EnhancedHub.rooms: room -> set of clients (absent rooms map to {})
    cliRooms,     \* Client.rooms
    cliState,     \* "new" | "open" (pumps running) | "closed" (ReadPump ended)
    sendBuf,      \* Client.send: buffered channel contents
    sendClosed,   \* whether Client.send has been closed
    registerCh,   \* EnhancedHub.Register
    unregisterCh, \* EnhancedHub.Unregister
    broadcastCh,  \* EnhancedHub.broadcast
    redisSubCh,   \* messages the substrate has delivered to redisSub.Channel()
    nextMsg,      \* source of fresh message payloads
    hubPhase,     \* ws-hub process: "running" | "stopping" (signal received) | "exited"
    redisLog,     \* every [channel, msg] published to the pub/sub substrate
    clientPubs,   \* ghost: payloads published by clients, as [room, msg]
    published,    \* ghost: per PublishUpdate payload, its room and the sessions joined
                  \*        to the room since the call
    dropped,      \* ghost: client -> payloads skipped because its buffer was full
    enqueued,     \* ghost: client -> sequence of every payload ever put on its send buffer
    \* ---- command processor ----
    handlers,     \* Processor.handlers: command type -> sequence of handlers
    cmd,          \* the *Command handed to Process
    procPc,       \* position of the Process call: "idle" | "handling"
    procCtx,      \* the context of the Process call: "live" | "cancelled"
    procNow,      \* time.Now for the command processor
    procRet,      \* what the last Process call returned
    procCalls,    \* number of Process calls so far
    handled,      \* ghost: sequence of [handler, type] of HandleCommand invocations
    registered,   \* ghost: the handlers RegisterHandler has been called with
    \* ---- circuit breaker ----
    cbState,      \* CircuitBreaker.state
    cbFailures,   \* CircuitBreaker.failures
    cbLastFailure,\* CircuitBreaker.lastFailure
    cbNow,        \* time.Now for the breaker
    cbPc,         \* position of each Call: "idle" | "fn"
    cbRet,        \* what each caller's last Call returned
    cbFnCalls,    \* whether each caller's current Call has invoked the wrapped function
    cbOpenedAt,   \* ghost: when the breaker last changed to open
    cbSeen,       \* ghost: what each Call found at its gate
    \* ---- session pumps ----
    writeDone,    \* whether the session's WritePump has returned
    \* ---- event router ----
    rtArrays,     \* the backing arrays of r.handlers[t], by capacity
    rtHandlers,   \* r.handlers[t] as a slice header: [cap, len] (cap 0: no entry)
    evPc,         \* position of each HandleEvent call: "idle" | "loop" | "done"
    evSnap,       \* the slice header the call read under RLock
    evIdx,        \* the index the call's range loop is at
    evPending,    \* the handlers of started goroutines that have not run yet
    evInvoked,    \* the handlers the call's goroutines have invoked, in order
    evFailed,     \* whether a handler of the call returned an error
    evRet,        \* what the call returned
    evReg,        \* ghost: the handlers registered when the call took its snapshot
    evGone,       \* ghost: the handlers unregistered while the call was running
    \* ---- load balancer ----
    lbBackends,   \* lb.backends: the sequence of backends held
    lbHealthy,    \* Backend.Healthy of each backend object
    lbFailures,   \* Backend.FailureCount of each backend object
    healthyCount, \* lb.healthyCount
    lbChecks,     \* the backends with a checkBackendHealth goroutine in flight
    lbUsed,       \* ghost: the backend objects AddBackend has created
    \* ---- worker pool ----
    workerPool,   \* number of tokens in Processor.workerPool
    wpPc          \* position of each Process call at the pool

cacheVars  == <<redis, sfCalls, gfPc, gfFirst, gfRet, loaderKind, loaderCalls,
                gfIssuedAt, gfLoaded, expiry, baseTTL, inv>>
dbVars     == <<outbox, nextId, clock>>
ingestVars == <<commands, idemKeys, statusCache, subPc, subCmd, subTx, subRet>>
relayVars  == <<relayKind, relayPc, relayBatch, relayCur, topicLog, crashes,
                relayCtx, lostMarks, cleanupRet>>
hubVars    == <<clients, rooms, cliRooms, cliState, sendBuf, sendClosed,
                registerCh, unregisterCh, broadcastCh, redisSubCh, nextMsg,
                hubPhase, redisLog, clientPubs, published, dropped, enqueued>>
procVars   == <<handlers, cmd, procPc, procCtx, procNow, procRet, procCalls, handled,
                registered>>
cbVars     == <<cbState, cbFailures, cbLastFailure, cbNow, cbPc, cbRet, cbFnCalls,
                cbOpenedAt, cbSeen>>
pumpVars   == <<writeDone>>
routerVars == <<rtArrays, rtHandlers, evPc, evSnap, evIdx, evPending, evInvoked,
                evFailed, evRet, evReg, evGone>>
lbVars     == <<lbBackends, lbHealthy, lbFailures, healthyCount, lbChecks, lbUsed>>
poolVars   == <<workerPool, wpPc>>
vars == <<cacheVars, dbVars, ingestVars, relayVars, hubVars, procVars, cbVars,
          pumpVars, routerVars, lbVars, poolVars>>

\* What a step of one component leaves alone.
CacheFrame  == UNCHANGED <<dbVars, ingestVars, relayVars, hubVars, procVars, cbVars,
                          pumpVars, routerVars, lbVars, poolVars>>
IngestFrame == UNCHANGED <<cacheVars, relayVars, hubVars, procVars, cbVars,
                          pumpVars, routerVars, lbVars, poolVars>>
RelayFrame  == UNCHANGED <<cacheVars, ingestVars, hubVars, procVars, cbVars,
                          pumpVars, routerVars, lbVars, poolVars>>
HubFrame    == UNCHANGED <<cacheVars, dbVars, ingestVars, relayVars, procVars, cbVars,
                          pumpVars, routerVars, lbVars, poolVars>>
ProcFrame   == UNCHANGED <<cacheVars, dbVars, ingestVars, relayVars, hubVars, cbVars,
                          pumpVars, routerVars, lbVars, poolVars>>
PumpFrame   == UNCHANGED <<cacheVars, dbVars, ingestVars, relayVars, hubVars, procVars,
                          cbVars, routerVars, lbVars, poolVars>>
RouterFrame == UNCHANGED <<cacheVars, dbVars, ingestVars, relayVars, hubVars, procVars,
                          cbVars, pumpVars, lbVars, poolVars>>
LbFrame     == UNCHANGED <<cacheVars, dbVars, ingestVars, relayVars, hubVars, procVars,
                          cbVars, pumpVars, routerVars, poolVars>>
PoolFrame   == UNCHANGED <<cacheVars, dbVars, ingestVars, relayVars, hubVars, procVars,
                          cbVars, pumpVars, routerVars, lbVars>>
BreakerFrame == UNCHANGED <<cacheVars, dbVars, ingestVars, relayVars, hubVars, procVars,
                          pumpVars, routerVars, lbVars, poolVars>>

Nil == "<nil>"

\* Absent values of the record-valued state.
NoCall == [leader |-> 0]
NoRet  == [status |-> "none"]
NoRow  == [status |-> "absent"]
NoCmd  == [id |-> 0]

(***************************************************************************)
(* Bounds of the model                                                     *)
(***************************************************************************)
NumCallers == 3
NumSubmits == 2
MaxMsgs    == 3
NumRelays  == 2
MaxCrashes == 1
NumClients == 2
MaxPub     == 2

Callers    == 1..NumCallers
Submitters == 1..NumSubmits
MsgIds     == 1..MaxMsgs
Relays     == 1..NumRelays
Clients    == 1..NumClients
Payloads   == 1..MaxPub

(***************************************************************************)
(*                               CACHE ENGINE                              *)
(***************************************************************************)
ErrCacheMiss == "cache miss"
ErrNotFound  == "not found"
ErrLoader    == "loader error"

CacheKey == "svc:v1:entity:e-43"
LoadedValue == "y"

\* negKey := key + ":neg"
NegKey(key) == key \o ":neg"

\* The keys of the substrate: entries and their negative siblings.
BaseKeys == {CacheKey, "svc:v1:entity:e-44", "svc:v1:user:u-1"}
RedisKeys == BaseKeys \cup {NegKey(k) : k \in BaseKeys}

\* CacheOptions: BaseTTL and NegativeTTL in seconds.
BaseTTLInputs == {60, 3600}
NegativeTTL == 30

\* rand.Int(rand.Reader, big.NewInt(300)): a number of seconds in 0..299.
JitterRange == 300
JitterInputs == {0, 9, 150, JitterRange - 1}

NoExpiry == [ttl |-> 0]

\* RedisCache.Get: the positive entry is consulted first, then the negative sibling.
Get(store, key) ==
    IF store[key] # Nil
        THEN [val |-> store[key], status |-> "hit", err |-> Nil]
    ELSE IF store[NegKey(key)] # Nil
        THEN [val |-> Nil, status |-> "neg", err |-> ErrNotFound]
    ELSE [val |-> Nil, status |-> "miss", err |-> ErrCacheMiss]

\* RedisCache.Set, the value written.
Set(store, key, value) == [store EXCEPT ![key] = value]

\* RedisCache.Set, the expiry handed to the substrate: ttl is the variadic
\* argument (<<>> or <<t>>); the random seconds are added only without it.
SetExpiry(base, ttl, jitter) ==
    LET given == IF Len(ttl) > 0 THEN ttl[1] ELSE base
    IN IF Len(ttl) = 0 THEN given + jitter ELSE given

\* RedisCache.SetNegative
SetNegative(store, key) == [store EXCEPT ![NegKey(key)] = "1"]

\* What the double-check at the head of the singleflight function accepts as
\* "already populated": err == nil.
DoubleCheckAbsorbs(r) == r.err = Nil

\* What the fetcher returns in this behaviour.
LoaderResult(kind) ==
    CASE kind = "value"    -> [val |-> LoadedValue, err |-> Nil]
      [] kind = "notfound" -> [val |-> Nil, err |-> ErrNotFound]
      [] OTHER             -> [val |-> Nil, err |-> ErrLoader]

\* Every loader error taken for not-found.
AnyErrorIsNotFound(err) == err # Nil

\* errors.Is(err, ErrNotFound)
IsNotFound(err) == err = ErrNotFound

NoInv == [pc |-> "idle", prefix |-> "", seen |-> {}, pipe |-> {}, count |-> 0,
          before |-> {}, dirty |-> FALSE]

CacheInitWith(kinds, ttls) ==
    /\ redis = [k \in RedisKeys |-> Nil]
    /\ expiry = [k \in RedisKeys |-> NoExpiry]
    /\ baseTTL \in ttls
    /\ inv = NoInv
    /\ sfCalls = [k \in {CacheKey} |-> NoCall]
    /\ gfPc = [c \in Callers |-> "start"]
    /\ gfFirst = [c \in Callers |-> ""]
    /\ gfRet = [c \in Callers |-> NoRet]
    /\ gfIssuedAt = [c \in Callers |-> 0]
    /\ gfLoaded = [c \in Callers |-> FALSE]
    /\ loaderKind \in kinds
    /\ loaderCalls = 0

\* GetOrFetch, "Try cache first"
GetOrFetchStart(c) ==
    /\ gfPc[c] = "start"
    /\ gfIssuedAt' = [gfIssuedAt EXCEPT ![c] = loaderCalls]
    /\ LET r == Get(redis, CacheKey) IN
        /\ gfFirst' = [gfFirst EXCEPT ![c] = r.status]
        /\ IF r.err = Nil \/ r.err = ErrNotFound
              THEN /\ gfPc' = [gfPc EXCEPT ![c] = "done"]
                   /\ gfRet' = [gfRet EXCEPT ![c] = r]
              ELSE /\ gfPc' = [gfPc EXCEPT ![c] = "sf"]
                   /\ UNCHANGED gfRet
    /\ UNCHANGED <<redis, sfCalls, loaderKind, loaderCalls, gfLoaded, expiry, baseTTL, inv>>
    /\ CacheFrame

\* singleflight.Group.Do: join the in-flight call of the key, or start one.
SfDo(c) ==
    /\ gfPc[c] = "sf"
    /\ IF sfCalls[CacheKey] # NoCall
          THEN /\ gfPc' = [gfPc EXCEPT ![c] = "wait"]
               /\ UNCHANGED sfCalls
          ELSE /\ gfPc' = [gfPc EXCEPT ![c] = "check"]
               /\ sfCalls' = [sfCalls EXCEPT ![CacheKey] = [leader |-> c, val |-> Nil, err |-> Nil]]
    /\ UNCHANGED <<redis, gfFirst, gfRet, loaderKind, loaderCalls, gfIssuedAt, gfLoaded,
                   expiry, baseTTL, inv>>
    /\ CacheFrame

\* the function passed to sf.Do, "Double-check cache"
SfDoubleCheck(c) ==
    /\ gfPc[c] = "check"
    /\ LET r == Get(redis, CacheKey) IN
        IF DoubleCheckAbsorbs(r)
           THEN /\ sfCalls' = [sfCalls EXCEPT ![CacheKey].val = r.val]
                /\ gfPc' = [gfPc EXCEPT ![c] = "finish"]
           ELSE /\ gfPc' = [gfPc EXCEPT ![c] = "fetch"]
                /\ UNCHANGED sfCalls
    /\ UNCHANGED <<redis, gfFirst, gfRet, loaderKind, loaderCalls, gfIssuedAt, gfLoaded,
                   expiry, baseTTL, inv>>
    /\ CacheFrame

\* data, err := fetcher(ctx), and the branch taken on its error
SfFetch(c) ==
    /\ gfPc[c] = "fetch"
    /\ loaderCalls' = loaderCalls + 1
    /\ gfLoaded' = [gfLoaded EXCEPT ![c] = TRUE]
    /\ LET r == LoaderResult(loaderKind) IN
        IF r.err # Nil
           THEN IF IsNotFound(r.err)
                   THEN /\ gfPc' = [gfPc EXCEPT ![c] = "setneg"]
                        /\ sfCalls' = [sfCalls EXCEPT ![CacheKey].err = ErrNotFound]
                   ELSE /\ gfPc' = [gfPc EXCEPT ![c] = "finish"]
                        /\ sfCalls' = [sfCalls EXCEPT ![CacheKey].err = r.err]
           ELSE /\ gfPc' = [gfPc EXCEPT ![c] = "store"]
                /\ sfCalls' = [sfCalls EXCEPT ![CacheKey].val = r.val]
    /\ UNCHANGED <<redis, gfFirst, gfRet, loaderKind, gfIssuedAt, expiry, baseTTL, inv>>
    /\ CacheFrame

\* c.Set(ctx, key, data, c.baseTTL)
SfStore(c) ==
    /\ gfPc[c] = "store"
    /\ redis' = Set(redis, CacheKey, sfCalls[CacheKey].val)
    /\ \E j \in JitterInputs :
          expiry' = [expiry EXCEPT ![CacheKey] =
                        [ttl |-> SetExpiry(baseTTL, <<baseTTL>>, j), explicit |-> TRUE]]
    /\ gfPc' = [gfPc EXCEPT ![c] = "finish"]
    /\ UNCHANGED <<sfCalls, gfFirst, gfRet, loaderKind, loaderCalls, gfIssuedAt, gfLoaded,
                   baseTTL, inv>>
    /\ CacheFrame

\* _ = c.SetNegative(ctx, key)
SfSetNegative(c) ==
    /\ gfPc[c] = "setneg"
    /\ redis' = SetNegative(redis, CacheKey)
    /\ expiry' = [expiry EXCEPT ![NegKey(CacheKey)] = [ttl |-> NegativeTTL, explicit |-> TRUE]]
    /\ gfPc' = [gfPc EXCEPT ![c] = "finish"]
    /\ UNCHANGED <<sfCalls, gfFirst, gfRet, loaderKind, loaderCalls, gfIssuedAt, gfLoaded,
                   baseTTL, inv>>
    /\ CacheFrame

\* What GetOrFetch returns from the result of sf.Do.
SfReturn(call) ==
    IF call.err # Nil
        THEN [val |-> Nil, status |-> "miss", err |-> call.err]
        ELSE [val |-> call.val, status |-> "miss", err |-> Nil]

\* singleflight doCall completes: the key is forgotten and the leader and every
\* caller that joined the call return its result.
SfFinish(c) ==
    /\ gfPc[c] = "finish"
    /\ LET call == sfCalls[CacheKey]
           share == {c} \cup {w \in Callers : gfPc[w] = "wait"} IN
        /\ gfRet' = [w \in Callers |-> IF w \in share THEN SfReturn(call) ELSE gfRet[w]]
        /\ gfPc' = [w \in Callers |-> IF w \in share THEN "done" ELSE gfPc[w]]
    /\ sfCalls' = [sfCalls EXCEPT ![CacheKey] = NoCall]
    /\ UNCHANGED <<redis, gfFirst, loaderKind, loaderCalls, gfIssuedAt, gfLoaded,
                   expiry, baseTTL, inv>>
    /\ CacheFrame

CacheNext ==
    \/ \E c \in Callers : GetOrFetchStart(c)
    \/ \E c \in Callers : SfDo(c)
    \/ \E c \in Callers : SfDoubleCheck(c)
    \/ \E c \in Callers : SfFetch(c)
    \/ \E c \in Callers : SfStore(c)
    \/ \E c \in Callers : SfSetNegative(c)
    \/ \E c \in Callers : SfFinish(c)

\* Execute in batches of 1000
InvBatch == 2

\* Patterns handed to InvalidateByPattern: a prefix followed by "*".
PatternPrefixes == {"svc:v1:entity:", "svc:v1:user:", "svc:v1:order:", ""}
Pattern(prefix) == prefix \o "*"

\* Glob matching of SCAN ... MATCH for such a pattern: the key starts with
\* the prefix and anything may follow.
KeyTails ==
    LET ids == {"e-43", "e-44", "u-1"}
    IN ids \cup {NegKey(i) : i \in ids} \cup RedisKeys
Match(prefix, key) == \E t \in KeyTails : prefix \o t = key

\* A substrate that already holds entries written by GetOrFetch.
CacheAdminInit ==
    /\ redis \in [RedisKeys -> {Nil, "v"}]
    /\ baseTTL \in BaseTTLInputs
    /\ expiry = [k \in RedisKeys |->
                    IF redis[k] = Nil THEN NoExpiry
                    ELSE [ttl |-> IF k \in BaseKeys THEN baseTTL ELSE NegativeTTL,
                          explicit |-> TRUE]]
    /\ inv = NoInv
    /\ sfCalls = [k \in {CacheKey} |-> NoCall]
    /\ gfPc = [c \in Callers |-> "start"]
    /\ gfFirst = [c \in Callers |-> ""]
    /\ gfRet = [c \in Callers |-> NoRet]
    /\ gfIssuedAt = [c \in Callers |-> 0]
    /\ gfLoaded = [c \in Callers |-> FALSE]
    /\ loaderKind = "value"
    /\ loaderCalls = 0

\* RedisCache.Set called by a writer, with or without the ttl argument.
SetCall(key, value, ttl, jitter) ==
    /\ redis' = Set(redis, key, value)
    /\ expiry' = [expiry EXCEPT ![key] = [ttl |-> SetExpiry(baseTTL, ttl, jitter),
                                          explicit |-> Len(ttl) > 0]]
    /\ inv' = [inv EXCEPT !.dirty = (inv.pc # "idle")]
    /\ UNCHANGED <<sfCalls, gfPc, gfFirst, gfRet, loaderKind, loaderCalls, gfIssuedAt,
                   gfLoaded, baseTTL>>
    /\ CacheFrame

\* pipe.Exec: the queued DELs are applied.
PipeExec(store, pipe) == [k \in RedisKeys |-> IF k \in pipe THEN Nil ELSE store[k]]
ExpiryAfterExec(exp, pipe) == [k \in RedisKeys |-> IF k \in pipe THEN NoExpiry ELSE exp[k]]

\* The batch is never found full.
BatchNeverFull(count) == FALSE

\* if count%1000 == 0 inside the loop
BatchFull(count) == count % InvBatch = 0

\* if count%1000 != 0 after the loop
RestPending(count) == count % InvBatch # 0

\* InvalidateByPattern: iter := Scan(ctx, 0, pattern, 0).Iterator(); pipe := Pipeline()
InvalidateStart(prefix) ==
    /\ inv.pc # "scan"
    /\ inv' = [NoInv EXCEPT !.pc = "scan", !.prefix = prefix,
                            !.before = {k \in RedisKeys : redis[k] # Nil}]
    /\ UNCHANGED <<redis, expiry, sfCalls, gfPc, gfFirst, gfRet, loaderKind, loaderCalls,
                   gfIssuedAt, gfLoaded, baseTTL>>
    /\ CacheFrame

\* One turn of the loop: iter.Next yields a matching key, pipe.Del queues it,
\* and a full batch is executed.
InvalidateIterate ==
    /\ inv.pc = "scan"
    /\ \E k \in RedisKeys :
        /\ redis[k] # Nil /\ Match(inv.prefix, k) /\ k \notin inv.seen
        /\ LET pipe == inv.pipe \cup {k}
               count == inv.count + 1 IN
            IF BatchFull(count)
               THEN /\ redis' = PipeExec(redis, pipe)
                    /\ expiry' = ExpiryAfterExec(expiry, pipe)
                    /\ inv' = [inv EXCEPT !.seen = @ \cup {k}, !.pipe = {}, !.count = count]
               ELSE /\ inv' = [inv EXCEPT !.seen = @ \cup {k}, !.pipe = pipe, !.count = count]
                    /\ UNCHANGED <<redis, expiry>>
    /\ UNCHANGED <<sfCalls, gfPc, gfFirst, gfRet, loaderKind, loaderCalls, gfIssuedAt,
                   gfLoaded, baseTTL>>
    /\ CacheFrame

\* The iterator is exhausted: the rest of the pipeline is executed and the
\* call returns.
InvalidateReturn ==
    /\ inv.pc = "scan"
    /\ ~ \E k \in RedisKeys : redis[k] # Nil /\ Match(inv.prefix, k) /\ k \notin inv.seen
    /\ IF RestPending(inv.count)
          THEN /\ redis' = PipeExec(redis, inv.pipe)
               /\ expiry' = ExpiryAfterExec(expiry, inv.pipe)
          ELSE UNCHANGED <<redis, expiry>>
    /\ inv' = [inv EXCEPT !.pc = "done", !.pipe = {}]
    /\ UNCHANGED <<sfCalls, gfPc, gfFirst, gfRet, loaderKind, loaderCalls, gfIssuedAt,
                   gfLoaded, baseTTL>>
    /\ CacheFrame

\* Writers that call Set with and without the ttl argument.
CacheWriteNext ==
    \E key \in BaseKeys, ttl \in {<<>>, <<120>>}, j \in JitterInputs :
        SetCall(key, "v", ttl, j)

\* InvalidateByPattern next to a writer.
CacheAdminNext ==
    \/ \E key \in BaseKeys : SetCall(key, "v", <<120>>, 0)
    \/ \E prefix \in PatternPrefixes : InvalidateStart(prefix)
    \/ InvalidateIterate
    \/ InvalidateReturn

(***************************************************************************)
(*                       OUTBOX TABLE (shared state)                       *)
(***************************************************************************)
StatusPending   == "pending"
StatusPublished == "published"
StatusFailed    == "failed"

\* A freshly inserted outbox_messages row: status pending, retry_count 0,
\* published_at NULL.
NewRow(aggType, aggId, topic, createdAt) ==
    [aggType |-> aggType, aggId |-> aggId, topic |-> topic, status |-> StatusPending,
     createdAt |-> createdAt, publishedAt |-> 0, retry |-> 0, error |-> ""]

DbInit ==
    /\ outbox = [i \in MsgIds |-> NoRow]
    /\ nextId = 1
    /\ clock = 1

(***************************************************************************)
(*                             COMMAND INGRESS                             *)
(***************************************************************************)
IdemKeyInputs == {"", "k1"}
EntityInputs  == {"e-1"}

NoTx == [outbox |-> FALSE, idem |-> FALSE]

IngestInit ==
    /\ commands = {}
    /\ idemKeys = [k \in IdemKeyInputs \ {""} |-> 0]
    /\ statusCache = {}
    /\ subPc = [s \in Submitters |-> "idle"]
    /\ subCmd = [s \in Submitters |-> NoCmd]
    /\ subTx = [s \in Submitters |-> NoTx]
    /\ subRet = [s \in Submitters |-> NoRet]

\* checkIdempotency: SELECT ... FROM commands c JOIN idempotency_keys i
\* ON i.command_id = c.id WHERE i.key = $1.  0 stands for sql.ErrNoRows.
checkIdempotency(key) ==
    IF idemKeys[key] # 0 /\ idemKeys[key] \in commands THEN idemKeys[key] ELSE 0

\* The store collaborator that owns the commands table inserts the row of a
\* command whose id has been issued.
InsertCommandRow(id) ==
    /\ id \in 1..(nextId - 1)
    /\ id \notin commands
    /\ commands' = commands \cup {id}
    /\ UNCHANGED <<idemKeys, statusCache, subPc, subCmd, subTx, subRet, dbVars>>
    /\ IngestFrame

SubmitFail(s, msg) ==
    /\ subPc' = [subPc EXCEPT ![s] = "done"]
    /\ subTx' = [subTx EXCEPT ![s] = NoTx]     \* defer tx.Rollback()
    /\ subRet' = [subRet EXCEPT ![s] = [id |-> 0, status |-> "", err |-> msg]]

\* SubmitCommand up to "Generate command ID": the idempotency lookup and, when
\* nothing is found, a fresh id, status pending and CreatedAt = now.
SubmitCheck(s, key, entity) ==
    /\ subPc[s] = "idle"
    /\ nextId <= MaxMsgs
    /\ LET existing == IF key # "" THEN checkIdempotency(key) ELSE 0 IN
        IF existing # 0
           THEN /\ subPc' = [subPc EXCEPT ![s] = "done"]
                /\ subCmd' = [subCmd EXCEPT ![s] = [id |-> 0, key |-> key, entity |-> entity, createdAt |-> 0]]
                /\ subRet' = [subRet EXCEPT ![s] = [id |-> existing, status |-> "pending", err |-> Nil]]
                /\ UNCHANGED <<nextId, clock>>
           ELSE /\ subPc' = [subPc EXCEPT ![s] = "begin"]
                /\ subCmd' = [subCmd EXCEPT ![s] = [id |-> nextId, key |-> key, entity |-> entity, createdAt |-> clock]]
                /\ nextId' = nextId + 1
                /\ clock' = clock + 1
                /\ UNCHANGED subRet
    /\ UNCHANGED <<commands, idemKeys, statusCache, subTx, outbox>>
    /\ IngestFrame

\* s.db.BeginTx
SubmitBegin(s, ok) ==
    /\ subPc[s] = "begin"
    /\ IF ok THEN /\ subPc' = [subPc EXCEPT ![s] = "outbox"]
                  /\ UNCHANGED <<subTx, subRet>>
             ELSE SubmitFail(s, "failed to start transaction")
    /\ UNCHANGED <<commands, idemKeys, statusCache, subCmd, dbVars>>
    /\ IngestFrame

\* The outbox row of the call's command.
OutboxRowOf(s) ==
    NewRow("command", subCmd[s].entity, "entity.commands", subCmd[s].createdAt)

\* The same INSERT run on the connection pool instead of the transaction:
\* visible at once, and not undone by a rollback.
InsertOutboxOnPool(s) ==
    [table |-> [outbox EXCEPT ![subCmd[s].id] = OutboxRowOf(s)], tx |-> subTx[s]]

\* tx.ExecContext(INSERT INTO outbox_messages ...): the row belongs to the
\* open transaction; the committed table does not change.
InsertOutboxInTx(s) ==
    [table |-> outbox, tx |-> [subTx[s] EXCEPT !.outbox = TRUE]]

\* storeInOutbox: INSERT INTO outbox_messages inside the transaction.
storeInOutbox(s, ok) ==
    /\ subPc[s] = "outbox"
    /\ IF ok THEN /\ subTx' = [subTx EXCEPT ![s] = InsertOutboxInTx(s).tx]
                  /\ outbox' = InsertOutboxInTx(s).table
                  /\ subPc' = [subPc EXCEPT ![s] =
                                  IF subCmd[s].key # "" THEN "idem" ELSE "cache"]
                  /\ UNCHANGED subRet
             ELSE /\ SubmitFail(s, "failed to store in outbox")
                  /\ UNCHANGED outbox
    /\ UNCHANGED <<commands, idemKeys, statusCache, subCmd, nextId, clock>>
    /\ IngestFrame

\* Another open transaction holds an uncommitted insert of the key: the
\* INSERT ... ON CONFLICT waits for it to end.
KeyHeldByOther(s, key) ==
    \E o \in Submitters \ {s} : subTx[o].idem /\ subCmd[o].key = key

\* storeIdempotencyKey: INSERT INTO idempotency_keys ... ON CONFLICT (key) DO
\* NOTHING; command_id REFERENCES commands(id).
storeIdempotencyKey(s, ok) ==
    /\ subPc[s] = "idem"
    /\ LET key == subCmd[s].key IN
        /\ ~KeyHeldByOther(s, key)
        /\ IF ~ok
              THEN SubmitFail(s, "failed to store idempotency key")
           ELSE IF idemKeys[key] # 0
              THEN /\ subPc' = [subPc EXCEPT ![s] = "cache"]      \* DO NOTHING
                   /\ UNCHANGED <<subTx, subRet>>
           ELSE IF subCmd[s].id \in commands
              THEN /\ subTx' = [subTx EXCEPT ![s].idem = TRUE]
                   /\ subPc' = [subPc EXCEPT ![s] = "cache"]
                   /\ UNCHANGED subRet
           ELSE SubmitFail(s, "failed to store idempotency key")  \* foreign key
    /\ UNCHANGED <<commands, idemKeys, statusCache, subCmd, dbVars>>
    /\ IngestFrame

\* cacheCommandStatus: a failure is logged and ignored.
cacheCommandStatus(s, ok) ==
    /\ subPc[s] = "cache"
    /\ statusCache' = IF ok THEN statusCache \cup {subCmd[s].id} ELSE statusCache
    /\ subPc' = [subPc EXCEPT ![s] = "commit"]
    /\ UNCHANGED <<commands, idemKeys, subCmd, subTx, subRet, dbVars>>
    /\ IngestFrame

\* What tx.Commit() makes visible in outbox_messages.
CommitOutbox(s) ==
    IF subTx[s].outbox THEN [outbox EXCEPT ![subCmd[s].id] = OutboxRowOf(s)] ELSE outbox

\* What tx.Commit() makes visible in idempotency_keys.
CommitIdem(s) ==
    IF subTx[s].idem THEN [idemKeys EXCEPT ![subCmd[s].key] = subCmd[s].id] ELSE idemKeys

\* tx.Commit() and the return of the CommandResult.
SubmitCommit(s, ok) ==
    /\ subPc[s] = "commit"
    /\ IF ok THEN /\ outbox' = CommitOutbox(s)
                  /\ idemKeys' = CommitIdem(s)
                  /\ subPc' = [subPc EXCEPT ![s] = "done"]
                  /\ subTx' = [subTx EXCEPT ![s] = NoTx]
                  /\ subRet' = [subRet EXCEPT ![s] =
                                   [id |-> subCmd[s].id, status |-> "accepted", err |-> Nil]]
             ELSE /\ SubmitFail(s, "failed to commit transaction")
                  /\ UNCHANGED <<outbox, idemKeys>>
    /\ UNCHANGED <<commands, statusCache, subCmd, nextId, clock>>
    /\ IngestFrame

IngestNext ==
    \/ \E s \in Submitters, key \in IdemKeyInputs, e \in EntityInputs : SubmitCheck(s, key, e)
    \/ \E s \in Submitters, ok \in BOOLEAN : SubmitBegin(s, ok)
    \/ \E s \in Submitters, ok \in BOOLEAN : storeInOutbox(s, ok)
    \/ \E s \in Submitters, ok \in BOOLEAN : storeIdempotencyKey(s, ok)
    \/ \E s \in Submitters, ok \in BOOLEAN : cacheCommandStatus(s, ok)
    \/ \E s \in Submitters, ok \in BOOLEAN : SubmitCommit(s, ok)
    \/ \E id \in MsgIds : InsertCommandRow(id)

(***************************************************************************)
(*                               OUTBOX RELAY                              *)
(***************************************************************************)
\* ProcessorConfig of the relay (DefaultConfig: 100 and 3).
BatchSize  == 2
MaxRetries == 3

Aggregates == {"u-1", "u-2"}
RelayKinds == {"Processor", "OutboxProcessor"}

NoMsg == [id |-> 0]
NoCleanup == [runs |-> 0, count |-> 0, retention |-> 0]

RelayInitWith(kinds) ==
    /\ relayKind \in [Relays -> kinds]
    /\ relayPc = [r \in Relays |-> "idle"]
    /\ relayBatch = [r \in Relays |-> <<>>]
    /\ relayCur = [r \in Relays |-> NoMsg]
    /\ topicLog = <<>>
    /\ crashes = 0
    /\ relayCtx = "live"
    /\ lostMarks = {}
    /\ cleanupRet = NoCleanup

\* Repository.Save / InMemoryRepository.Save of a message built by
\* CreateMessage: fresh id, status pending, retry count 0, CreatedAt = now.
Save(agg) ==
    /\ nextId <= MaxMsgs
    /\ outbox' = [outbox EXCEPT ![nextId] = NewRow("user", agg, "users", clock)]
    /\ nextId' = nextId + 1
    /\ clock' = clock + 1
    /\ UNCHANGED relayVars
    /\ RelayFrame

\* WHERE status = 'pending' of GetPendingMessages.
Eligible(row) == row.status = StatusPending

\* ORDER BY created_at ASC LIMIT n as a sequence of ids.
RECURSIVE OldestFirst(_, _)
OldestFirst(ids, n) ==
    IF ids = {} \/ n = 0 THEN <<>>
    ELSE LET first == CHOOSE i \in ids : \A j \in ids : outbox[i].createdAt <= outbox[j].createdAt
         IN <<first>> \o OldestFirst(ids \ {first}, n - 1)

\* Repository.GetPendingMessages: the rows a relay receives, as the snapshots
\* it scans.  The query runs on the pool outside any transaction, so the row
\* locks of FOR UPDATE SKIP LOCKED end with the statement and exclude nothing
\* afterwards.
GetPendingMessages(limit) ==
    LET ids == OldestFirst({i \in MsgIds : Eligible(outbox[i])}, limit)
    IN [k \in 1..Len(ids) |-> [id |-> ids[k], retry |-> outbox[ids[k]].retry,
                               topic |-> outbox[ids[k]].topic]]

\* UPDATE outbox_messages SET status = published, published_at = now WHERE id
MarkAsPublished(table, id) ==
    IF table[id] = NoRow THEN table
    ELSE [table EXCEPT ![id].status = StatusPublished, ![id].publishedAt = clock]

\* UPDATE outbox_messages SET status = failed, error_message = $2,
\* retry_count = retry_count + 1 WHERE id
MarkAsFailed(table, id, errorMsg) ==
    IF table[id] = NoRow THEN table
    ELSE [table EXCEPT ![id].status = StatusFailed, ![id].error = errorMsg,
                       ![id].retry = @ + 1]

\* r.db.Exec(ctx, ...): with a cancelled context the statement is not run and
\* the call returns the context's error, which processBatch only logs.
ExecWith(ctx, table, updated) == IF ctx = "cancelled" THEN table ELSE updated
LostWith(ctx, id) == IF ctx = "cancelled" THEN lostMarks \cup {id} ELSE lostMarks

\* processBatch, the fetch: one polling tick that found pending messages.  A
\* query under a cancelled context returns an error and no batch.
RelayFetch(r) ==
    /\ relayPc[r] = "idle"
    /\ relayCtx = "live"
    /\ LET batch == GetPendingMessages(BatchSize) IN
        /\ batch # <<>>
        /\ relayBatch' = [relayBatch EXCEPT ![r] = batch]
    /\ relayPc' = [relayPc EXCEPT ![r] = "process"]
    /\ UNCHANGED <<relayCtx, lostMarks, cleanupRet, relayKind, relayCur, topicLog, crashes, dbVars>>
    /\ RelayFrame

\* Where the relay goes after marking the outcome of a message.
AfterMark(r) == IF relayBatch[r] = <<>> THEN "idle" ELSE "process"

\* Processor.processMessage: publisher.Publish(ctx, msg.Topic, msg.ID, msg.Payload)
ProcessorProcessMessage(r, ok) ==
    /\ relayKind[r] = "Processor"
    /\ relayPc[r] = "process"
    /\ relayBatch[r] # <<>>
    /\ LET msg == Head(relayBatch[r]) IN
        /\ relayCur' = [relayCur EXCEPT ![r] = msg]
        /\ relayBatch' = [relayBatch EXCEPT ![r] = Tail(relayBatch[r])]
        /\ IF ok THEN /\ topicLog' = Append(topicLog, [id |-> msg.id, topic |-> msg.topic])
                      /\ relayPc' = [relayPc EXCEPT ![r] = "markPublished"]
                 ELSE /\ relayPc' = [relayPc EXCEPT ![r] = "markFailed"]
                      /\ UNCHANGED topicLog
    /\ UNCHANGED <<relayCtx, lostMarks, cleanupRet, relayKind, crashes, dbVars>>
    /\ RelayFrame

\* command.OutboxProcessor.processMessage: logs, publishes nothing, returns nil.
OutboxProcessorProcessMessage(r) ==
    /\ relayKind[r] = "OutboxProcessor"
    /\ relayPc[r] = "process"
    /\ relayBatch[r] # <<>>
    /\ relayCur' = [relayCur EXCEPT ![r] = Head(relayBatch[r])]
    /\ relayBatch' = [relayBatch EXCEPT ![r] = Tail(relayBatch[r])]
    /\ relayPc' = [relayPc EXCEPT ![r] = "markPublished"]
    /\ UNCHANGED <<relayCtx, lostMarks, cleanupRet, relayKind, topicLog, crashes, dbVars>>
    /\ RelayFrame

\* processBatch after a nil error: repo.MarkAsPublished / markPublished
RelayMarkPublished(r) ==
    /\ relayPc[r] = "markPublished"
    /\ outbox' = ExecWith(relayCtx, outbox, MarkAsPublished(outbox, relayCur[r].id))
    /\ lostMarks' = LostWith(relayCtx, relayCur[r].id)
    /\ relayCur' = [relayCur EXCEPT ![r] = NoMsg]
    /\ relayPc' = [relayPc EXCEPT ![r] = AfterMark(r)]
    /\ UNCHANGED <<relayCtx, cleanupRet, relayKind, relayBatch, topicLog, crashes, nextId, clock>>
    /\ RelayFrame

\* processBatch after a publish error: repo.MarkAsFailed with "Exceeded max
\* retries" when msg.RetryCount >= MaxRetries, with the error otherwise.
RelayMarkFailed(r) ==
    /\ relayPc[r] = "markFailed"
    /\ outbox' = ExecWith(relayCtx, outbox,
                   MarkAsFailed(outbox, relayCur[r].id,
                     IF relayCur[r].retry >= MaxRetries
                        THEN "Exceeded max retries" ELSE "failed to publish message"))
    /\ lostMarks' = LostWith(relayCtx, relayCur[r].id)
    /\ relayCur' = [relayCur EXCEPT ![r] = NoMsg]
    /\ relayPc' = [relayPc EXCEPT ![r] = AfterMark(r)]
    /\ UNCHANGED <<relayCtx, cleanupRet, relayKind, relayBatch, topicLog, crashes, nextId, clock>>
    /\ RelayFrame

\* The relay process dies and is restarted: everything it held in memory is lost.
RelayCrash(r) ==
    /\ relayPc[r] # "idle"
    /\ crashes < MaxCrashes
    /\ crashes' = crashes + 1
    /\ relayPc' = [relayPc EXCEPT ![r] = "idle"]
    /\ relayBatch' = [relayBatch EXCEPT ![r] = <<>>]
    /\ relayCur' = [relayCur EXCEPT ![r] = NoMsg]
    /\ UNCHANGED <<relayCtx, lostMarks, cleanupRet, relayKind, topicLog, dbVars>>
    /\ RelayFrame

RetentionInputs == {1, 2}
MaxClock    == 5
MaxCleanups == 2

\* Deletes failed rows as well.
ExpiredOrFailed(row, cutoff) ==
    /\ row.status \in {StatusPublished, StatusFailed}
    /\ row.publishedAt < cutoff

\* WHERE status = 'published' AND published_at < cutoff
Expired(row, cutoff) ==
    /\ row.status = StatusPublished
    /\ row.publishedAt < cutoff

\* Repository.CleanupPublishedMessages(olderThan): cutoff = now - olderThan,
\* DELETE, return RowsAffected.
CleanupPublishedMessages(olderThan) ==
    /\ cleanupRet.runs < MaxCleanups
    /\ LET cutoff  == clock - olderThan
           deleted == {i \in MsgIds : Expired(outbox[i], cutoff)}
       IN /\ outbox' = [i \in MsgIds |-> IF i \in deleted THEN NoRow ELSE outbox[i]]
          /\ cleanupRet' = [runs |-> cleanupRet.runs + 1, count |-> Cardinality(deleted),
                            retention |-> olderThan]
    /\ UNCHANGED <<relayCtx, lostMarks, relayKind, relayPc, relayBatch, relayCur,
                   topicLog, crashes, nextId, clock>>
    /\ RelayFrame

\* Time passes.
OutboxTick ==
    /\ clock < MaxClock
    /\ clock' = clock + 1
    /\ UNCHANGED <<relayVars, outbox, nextId>>
    /\ RelayFrame

\* serviceCancel(): the context handed to Processor.Start is cancelled.
ServiceCancel ==
    /\ relayCtx = "live"
    /\ relayCtx' = "cancelled"
    /\ UNCHANGED <<lostMarks, cleanupRet, relayKind, relayPc, relayBatch, relayCur,
                   topicLog, crashes, dbVars>>
    /\ RelayFrame

\* The relay goroutine ends: processMessages returns on ctx.Done, or main
\* returns right after serviceCancel() and the process exits with the
\* goroutine wherever it is.  What the relay held stays as it was.
RelayExit(r) ==
    /\ relayCtx = "cancelled"
    /\ relayPc[r] # "exited"
    /\ relayPc' = [relayPc EXCEPT ![r] = "exited"]
    /\ UNCHANGED <<relayCtx, lostMarks, cleanupRet, relayKind, relayBatch, relayCur,
                   topicLog, crashes, dbVars>>
    /\ RelayFrame

RelayNext ==
    \/ \E agg \in Aggregates : Save(agg)
    \/ \E r \in Relays : RelayFetch(r)
    \/ \E r \in Relays, ok \in BOOLEAN : ProcessorProcessMessage(r, ok)
    \/ \E r \in Relays : OutboxProcessorProcessMessage(r)
    \/ \E r \in Relays : RelayMarkPublished(r)
    \/ \E r \in Relays : RelayMarkFailed(r)
    \/ \E r \in Relays : RelayCrash(r)

\* The relays of outbox.Processor alone.
ProcessorNext ==
    \/ \E agg \in Aggregates : Save(agg)
    \/ \E r \in Relays : RelayFetch(r)
    \/ \E r \in Relays, ok \in BOOLEAN : ProcessorProcessMessage(r, ok)
    \/ \E r \in Relays : RelayMarkPublished(r)
    \/ \E r \in Relays : RelayMarkFailed(r)
    \/ \E r \in Relays : RelayCrash(r)

\* One outbox.Processor: Start runs one polling loop and one cleanup routine.
StartedRelay == CHOOSE r \in Relays : \A q \in Relays : r <= q

CleanupNext ==
    \/ \E agg \in Aggregates : Save(agg)
    \/ RelayFetch(StartedRelay)
    \/ \E ok \in BOOLEAN : ProcessorProcessMessage(StartedRelay, ok)
    \/ RelayMarkPublished(StartedRelay)
    \/ RelayMarkFailed(StartedRelay)
    \/ \E olderThan \in RetentionInputs : CleanupPublishedMessages(olderThan)
    \/ OutboxTick

\* The relays of outbox.Processor and the shutdown of the service.
RelayShutdownNext ==
    \/ \E agg \in Aggregates : Save(agg)
    \/ \E r \in Relays : RelayFetch(r)
    \/ \E r \in Relays, ok \in BOOLEAN : ProcessorProcessMessage(r, ok)
    \/ \E r \in Relays : RelayMarkPublished(r)
    \/ \E r \in Relays : RelayMarkFailed(r)
    \/ ServiceCancel
    \/ \E r \in Relays : RelayExit(r)

\* The polling loop keeps ticking and a started batch is worked through; a
\* publish that is attempted again and again eventually succeeds.  Crashes
\* and new messages are not forced.
ProcessorFairness ==
    \A r \in Relays :
        /\ WF_vars(RelayFetch(r))
        /\ WF_vars(\E ok \in BOOLEAN : ProcessorProcessMessage(r, ok))
        /\ SF_vars(ProcessorProcessMessage(r, TRUE))
        /\ WF_vars(RelayMarkPublished(r))
        /\ WF_vars(RelayMarkFailed(r))

(***************************************************************************)
(*                              REAL-TIME HUB                              *)
(***************************************************************************)
\* Capacities of Client.send and of the hub's Register, Unregister and
\* broadcast channels (256, 256, 256 and 1024 in the program).
SendCap == 1
ChanCap == 2

RoomNames == {"entity.e-50", "*"}

\* channel := "realtime:" + room
Channel(room) == "realtime:" \o room

\* room := msg.Channel[len("realtime:"):]
RoomOf(channel) == CHOOSE room \in RoomNames : Channel(room) = channel

\* hub.redisSub = rdb.Subscribe(ctx, "realtime:*"): a channel subscription,
\* which the substrate matches by the exact channel name.
SubscribedChannels == {"realtime:*"}
SubstrateDelivers(channel) == channel \in SubscribedChannels

NoPub == [room |-> ""]

\* the rooms map as a function with an explicit key set
RoomMembers(room) == IF room \in DOMAIN rooms THEN rooms[room] ELSE {}
RoomsWith(m, room, members) ==
    [x \in (DOMAIN m) \cup {room} |-> IF x = room THEN members ELSE m[x]]
RoomsWithout(m, room) == [x \in (DOMAIN m) \ {room} |-> m[x]]

\* The member is deleted and the room entry is kept, empty or not.
RemoveMemberKeepRoom(m, room, c) ==
    IF room \notin DOMAIN m THEN m ELSE RoomsWith(m, room, m[room] \ {c})

\* delete(clients, client); if len(clients) == 0 { delete(h.rooms, room) }
RemoveMember(m, room, c) ==
    IF room \notin DOMAIN m THEN m
    ELSE IF m[room] \ {c} = {} THEN RoomsWithout(m, room)
    ELSE RoomsWith(m, room, m[room] \ {c})

\* The session stays in the rooms it had joined.
LeftInRooms(m, rs, c) == m

RECURSIVE RemoveFromRooms(_, _, _)
RemoveFromRooms(m, rs, c) ==
    IF rs = {} THEN m
    ELSE LET room == CHOOSE x \in rs : TRUE
         IN RemoveFromRooms(RemoveMember(m, room, c), rs \ {room}, c)

\* ghost: session c is no longer joined to the rooms rs
Unrequire(pub, rs, c) ==
    [m \in Payloads |-> IF pub[m] # NoPub /\ pub[m].room \in rs
                           THEN [pub[m] EXCEPT !.required = @ \ {c}] ELSE pub[m]]

\* The process is alive; only main changes its phase.
HubAlive == hubPhase # "exited" /\ UNCHANGED hubPhase

HubInit ==
    /\ clients = {}
    /\ rooms = [x \in {} |-> {}]
    /\ cliRooms = [c \in Clients |-> {}]
    /\ cliState = [c \in Clients |-> "new"]
    /\ sendBuf = [c \in Clients |-> <<>>]
    /\ sendClosed = [c \in Clients |-> FALSE]
    /\ registerCh = <<>>
    /\ unregisterCh = <<>>
    /\ broadcastCh = <<>>
    /\ redisSubCh = <<>>
    /\ nextMsg = 1
    /\ hubPhase = "running"
    /\ redisLog = {}
    /\ clientPubs = {}
    /\ published = [m \in Payloads |-> NoPub]
    /\ dropped = [c \in Clients |-> {}]
    /\ enqueued = [c \in Clients |-> <<>>]

\* handleWebSocket: NewClient, hand it to hub.Register without blocking, start
\* the pumps; when the channel is full the connection is closed instead.
handleWebSocket(c) ==
    /\ cliState[c] = "new"
    /\ IF Len(registerCh) < ChanCap
          THEN /\ registerCh' = Append(registerCh, c)
               /\ cliState' = [cliState EXCEPT ![c] = "open"]
          ELSE /\ cliState' = [cliState EXCEPT ![c] = "refused"]
               /\ UNCHANGED registerCh
    /\ UNCHANGED <<clients, rooms, cliRooms, sendBuf, sendClosed, unregisterCh,
                   broadcastCh, redisSubCh, nextMsg, published, dropped, enqueued>>
    /\ HubAlive
    /\ UNCHANGED <<redisLog, clientPubs>>
    /\ HubFrame

\* Run, case client := <-h.Register: registerClient
registerClient ==
    /\ registerCh # <<>>
    /\ clients' = clients \cup {Head(registerCh)}
    /\ registerCh' = Tail(registerCh)
    /\ UNCHANGED <<rooms, cliRooms, cliState, sendBuf, sendClosed, unregisterCh,
                   broadcastCh, redisSubCh, nextMsg, published, dropped, enqueued>>
    /\ HubAlive
    /\ UNCHANGED <<redisLog, clientPubs>>
    /\ HubFrame

\* ReadPump, join_room: handleJoinRoom and EnhancedHub.JoinRoom
handleJoinRoom(c, room) ==
    /\ cliState[c] = "open"
    /\ room \notin cliRooms[c]
    /\ cliRooms' = [cliRooms EXCEPT ![c] = @ \cup {room}]
    /\ rooms' = RoomsWith(rooms, room, RoomMembers(room) \cup {c})
    /\ UNCHANGED <<clients, cliState, sendBuf, sendClosed, registerCh, unregisterCh,
                   broadcastCh, redisSubCh, nextMsg, published, dropped, enqueued>>
    /\ HubAlive
    /\ UNCHANGED <<redisLog, clientPubs>>
    /\ HubFrame

\* ReadPump, leave_room: handleLeaveRoom and EnhancedHub.LeaveRoom
handleLeaveRoom(c, room) ==
    /\ cliState[c] = "open"
    /\ room \in cliRooms[c]
    /\ cliRooms' = [cliRooms EXCEPT ![c] = @ \ {room}]
    /\ rooms' = RemoveMember(rooms, room, c)
    /\ published' = Unrequire(published, {room}, c)
    /\ UNCHANGED <<clients, cliState, sendBuf, sendClosed, registerCh, unregisterCh,
                   broadcastCh, redisSubCh, nextMsg, dropped, enqueued>>
    /\ HubAlive
    /\ UNCHANGED <<redisLog, clientPubs>>
    /\ HubFrame

\* ReadPump, publish: handlePublish puts the payload on hub.broadcast.
handlePublish(c, room) ==
    /\ cliState[c] = "open"
    /\ room \in cliRooms[c]
    /\ nextMsg <= MaxPub
    /\ Len(broadcastCh) < ChanCap
    /\ broadcastCh' = Append(broadcastCh, [room |-> room, msg |-> nextMsg])
    /\ clientPubs' = clientPubs \cup {[room |-> room, msg |-> nextMsg]}
    /\ nextMsg' = nextMsg + 1
    /\ UNCHANGED <<clients, rooms, cliRooms, cliState, sendBuf, sendClosed, registerCh,
                   unregisterCh, redisSubCh, published, dropped, enqueued>>
    /\ HubAlive
    /\ UNCHANGED redisLog
    /\ HubFrame

\* ReadPump's deferred function: c.hub.Unregister <- c; c.conn.Close()
ReadPumpDeferred(c) ==
    /\ Len(unregisterCh) < ChanCap
    /\ unregisterCh' = Append(unregisterCh, c)
    /\ cliState' = [cliState EXCEPT ![c] = "closed"]
    /\ published' = Unrequire(published, RoomNames, c)
    /\ UNCHANGED <<clients, rooms, cliRooms, sendBuf, sendClosed, registerCh,
                   broadcastCh, redisSubCh, nextMsg, dropped, enqueued>>
    /\ HubAlive
    /\ UNCHANGED <<redisLog, clientPubs>>
    /\ HubFrame

\* ReadPump ends (read error, close) and its deferred function runs.
ReadPumpExit(c) == cliState[c] = "open" /\ ReadPumpDeferred(c)

\* ReadPump, ReadMessage returns an error: the loop is left.
ReadLoopEnds(c) ==
    /\ cliState[c] = "open"
    /\ cliState' = [cliState EXCEPT ![c] = "leaving"]
    /\ UNCHANGED <<clients, rooms, cliRooms, sendBuf, sendClosed, registerCh, unregisterCh,
                   broadcastCh, redisSubCh, nextMsg, published, dropped, enqueued>>
    /\ HubAlive
    /\ UNCHANGED <<redisLog, clientPubs>>
    /\ HubFrame

\* ReadPump after its loop: the deferred function runs once hub.Unregister
\* has room.
ReadPumpUnregister(c) == cliState[c] = "leaving" /\ ReadPumpDeferred(c)

\* Run, case client := <-h.Unregister: unregisterClient
unregisterClient ==
    /\ unregisterCh # <<>>
    /\ LET c == Head(unregisterCh) IN
        IF c \in clients
           THEN /\ clients' = clients \ {c}
                /\ rooms' = RemoveFromRooms(rooms, cliRooms[c], c)
                /\ sendClosed' = [sendClosed EXCEPT ![c] = TRUE]
           ELSE UNCHANGED <<clients, rooms, sendClosed>>
    /\ unregisterCh' = Tail(unregisterCh)
    /\ UNCHANGED <<cliRooms, cliState, sendBuf, registerCh, broadcastCh, redisSubCh,
                   nextMsg, published, dropped, enqueued>>
    /\ HubAlive
    /\ UNCHANGED <<redisLog, clientPubs>>
    /\ HubFrame

\* PublishUpdate: the message is published on realtime:<room>; the substrate
\* hands it to the hub's subscription when the subscription matches.
PublishUpdate(room) ==
    /\ nextMsg <= MaxPub
    /\ LET channel == Channel(room) IN
        redisSubCh' = IF SubstrateDelivers(channel)
                         THEN Append(redisSubCh, [channel |-> channel, msg |-> nextMsg])
                         ELSE redisSubCh
    /\ published' = [published EXCEPT ![nextMsg] =
                        [room |-> room,
                         required |-> {c \in RoomMembers(room) : cliState[c] = "open"}]]
    /\ redisLog' = redisLog \cup {[channel |-> Channel(room), msg |-> nextMsg]}
    /\ nextMsg' = nextMsg + 1
    /\ UNCHANGED <<clients, rooms, cliRooms, cliState, sendBuf, sendClosed, registerCh,
                   unregisterCh, broadcastCh, dropped, enqueued>>
    /\ HubAlive
    /\ UNCHANGED clientPubs
    /\ HubFrame

\* listenRedis, case msg := <-ch: the room is cut out of the channel name and
\* the payload is put on hub.broadcast.
listenRedis ==
    /\ redisSubCh # <<>>
    /\ Len(broadcastCh) < ChanCap
    /\ broadcastCh' = Append(broadcastCh, [room |-> RoomOf(Head(redisSubCh).channel),
                                           msg |-> Head(redisSubCh).msg])
    /\ redisSubCh' = Tail(redisSubCh)
    /\ UNCHANGED <<clients, rooms, cliRooms, cliState, sendBuf, sendClosed, registerCh,
                   unregisterCh, nextMsg, published, dropped, enqueued>>
    /\ HubAlive
    /\ UNCHANGED <<redisLog, clientPubs>>
    /\ HubFrame

\* select { case client.send <- broadcast.Message: ... default: dropped }
Accepts(c) == Len(sendBuf[c]) < SendCap

\* A send that waits for room in the buffer of every member.
FanOutWaits(members) == \A c \in members : Accepts(c)

\* The select over client.send has a default branch: the loop over the
\* members goes on whatever their buffers hold.
FanOutReady(members) == TRUE

\* Sessions with a full buffer are removed from the client set.
ClientsWithoutSlow(cs, full) == cs \ full

\* The default branch counts and logs the drop; the client set stays as it is.
ClientsAfterFanOut(cs, full) == cs

\* Run, case broadcast := <-h.broadcast: broadcastMessage
broadcastMessage ==
    /\ broadcastCh # <<>>
    /\ LET b == Head(broadcastCh)
           members == RoomMembers(b.room) IN
        /\ FanOutReady(members)
        /\ clients' = ClientsAfterFanOut(clients, {c \in members : ~Accepts(c)})
        /\ sendBuf' = [c \in Clients |->
                          IF c \in members /\ Accepts(c) THEN Append(sendBuf[c], b.msg)
                          ELSE sendBuf[c]]
        /\ enqueued' = [c \in Clients |->
                          IF c \in members /\ Accepts(c)
                             THEN Append(enqueued[c], [msg |-> b.msg, room |-> b.room,
                                                       joined |-> b.room \in cliRooms[c]])
                          ELSE enqueued[c]]
        /\ dropped' = [c \in Clients |->
                          IF c \in members /\ ~Accepts(c) THEN dropped[c] \cup {b.msg}
                          ELSE dropped[c]]
    /\ broadcastCh' = Tail(broadcastCh)
    /\ UNCHANGED <<rooms, cliRooms, cliState, sendClosed, registerCh,
                   unregisterCh, redisSubCh, nextMsg, published>>
    /\ HubAlive
    /\ UNCHANGED <<redisLog, clientPubs>>
    /\ HubFrame

\* WritePump, case message, ok := <-c.send with ok: the message goes to the peer.
WritePump(c) ==
    /\ cliState[c] # "new"
    /\ ~writeDone[c]
    /\ sendBuf[c] # <<>>
    /\ sendBuf' = [sendBuf EXCEPT ![c] = Tail(@)]
    /\ UNCHANGED <<clients, rooms, cliRooms, cliState, sendClosed, registerCh,
                   unregisterCh, broadcastCh, redisSubCh, nextMsg, published,
                   dropped, enqueued>>
    /\ HubAlive
    /\ UNCHANGED <<redisLog, clientPubs>>
    /\ HubFrame

PumpIdle == writeDone = [c \in Clients |-> FALSE]

\* No write to the connection ever fails.
WriteNeverFails(state) == FALSE

\* WriteMessage / NextWriter return an error once the connection has been
\* closed, which ReadPump's deferred function does.
WriteFails(state) == state = "closed"

\* WritePump returns: c.send was closed and is drained (ok is false), or a
\* write of a message or of the ticker's ping failed.
WritePumpExit(c) ==
    /\ cliState[c] \in {"open", "leaving", "closed"}
    /\ ~writeDone[c]
    /\ \/ sendClosed[c] /\ sendBuf[c] = <<>>
       \/ WriteFails(cliState[c])
    /\ writeDone' = [writeDone EXCEPT ![c] = TRUE]
    /\ PumpFrame

\* The room the sessions join and publish to on their way to the disconnect.
SessionRooms == {"*"}

\* The sessions from connect to the end of both pumps.
SessionNext ==
    \/ \E c \in Clients : handleWebSocket(c)
    \/ registerClient
    \/ \E c \in Clients, room \in SessionRooms : handleJoinRoom(c, room)
    \/ \E c \in Clients, room \in SessionRooms : handlePublish(c, room)
    \/ \E c \in Clients : ReadLoopEnds(c)
    \/ \E c \in Clients : ReadPumpUnregister(c)
    \/ unregisterClient
    \/ broadcastMessage
    \/ \E c \in Clients : WritePump(c)
    \/ \E c \in Clients : WritePumpExit(c)

\* Run's select takes a ready case, a blocked channel send goes through once
\* the channel has room, and the ticker of WritePump fires.
SessionFairness ==
    /\ WF_vars(registerClient)
    /\ WF_vars(unregisterClient)
    /\ WF_vars(broadcastMessage)
    /\ \A c \in Clients : WF_vars(ReadPumpUnregister(c)) /\ WF_vars(WritePumpExit(c))

\* ws-hub main: the interrupt signal arrives and srv.Shutdown is called.  The
\* hub's context is not cancelled, so Run and the pumps go on.
MainShutdown ==
    /\ hubPhase = "running"
    /\ hubPhase' = "stopping"
    /\ UNCHANGED <<clients, rooms, cliRooms, cliState, sendBuf, sendClosed, registerCh,
                   unregisterCh, broadcastCh, redisSubCh, nextMsg, redisLog, clientPubs,
                   published, dropped, enqueued>>
    /\ HubFrame

\* ws-hub main returns: the process and all its goroutines end.
MainExit ==
    /\ hubPhase = "stopping"
    /\ hubPhase' = "exited"
    /\ UNCHANGED <<clients, rooms, cliRooms, cliState, sendBuf, sendClosed, registerCh,
                   unregisterCh, broadcastCh, redisSubCh, nextMsg, redisLog, clientPubs,
                   published, dropped, enqueued>>
    /\ HubFrame

\* Sessions that stay connected while the process is stopped.
HubShutdownNext ==
    \/ \E c \in Clients : handleWebSocket(c)
    \/ registerClient
    \/ \E c \in Clients, room \in RoomNames : handleJoinRoom(c, room)
    \/ \E c \in Clients, room \in RoomNames : handlePublish(c, room)
    \/ \E room \in RoomNames : PublishUpdate(room)
    \/ listenRedis
    \/ broadcastMessage
    \/ \E c \in Clients : WritePump(c)
    \/ MainShutdown
    \/ MainExit

HubNext ==
    \/ \E c \in Clients : handleWebSocket(c)
    \/ registerClient
    \/ \E c \in Clients, room \in RoomNames : handleJoinRoom(c, room)
    \/ \E c \in Clients, room \in RoomNames : handleLeaveRoom(c, room)
    \/ \E c \in Clients, room \in RoomNames : handlePublish(c, room)
    \/ \E c \in Clients : ReadPumpExit(c)
    \/ unregisterClient
    \/ \E room \in RoomNames : PublishUpdate(room)
    \/ listenRedis
    \/ broadcastMessage
    \/ \E c \in Clients : WritePump(c)

(***************************************************************************)
(*                            COMMAND PROCESSOR                            *)
(***************************************************************************)
StatusProcessing == "processing"
StatusCompleted  == "completed"
StatusRetrying   == "retrying"
StatusCancelled  == "cancelled"

PriorityLow      == 1
PriorityCritical == 4

\* Command types: one with type-specific validation, one without.
CommandTypeUserCreate == "user.create"
CmdTypes == {CommandTypeUserCreate, "create_user"}

\* Payloads: nil, a map lacking required fields, a map the type-specific
\* validation accepts.
PayloadKinds == {"nil", "incomplete", "complete"}

\* Field values a caller may hand in.
PriorityInputs     == {0, PriorityLow, PriorityCritical, 5}
MaxRetriesInputs   == {-1, 0, 2}
RetryBackoffInputs == {-5, 5}
TimeoutInputs      == {-30, 2}

MaxProcess == 3
MaxTime    == 4

\* The handlers of the repository and the types they accept.
Handlers == {"UserCreateHandler"}
CanHandle(h, cmdType) == cmdType = CommandTypeUserCreate

\* NewCommand, with the fields a caller may overwrite before Process.
NewCommand(cmdType, payload, priority, maxRetries, retryBackoff, timeoutAfter) ==
    [type |-> cmdType, payload |-> payload, priority |-> priority,
     status |-> StatusPending, retryCount |-> 0, maxRetries |-> maxRetries,
     retryBackoff |-> retryBackoff, timeoutAfter |-> timeoutAfter,
     scheduledFor |-> 0, processedAt |-> 0, completedAt |-> 0, errCode |-> ""]

CommandInputs ==
    {NewCommand(t, p, pr, mr, rb, ta) :
        t \in CmdTypes, p \in PayloadKinds, pr \in PriorityInputs,
        mr \in MaxRetriesInputs, rb \in RetryBackoffInputs, ta \in TimeoutInputs}

\* validateUserCreate: the required fields are present and well-formed.
validateUserCreate(payload) == payload = "complete"

validateGenericCommand(c) ==
    /\ ~(c.priority < PriorityLow \/ c.priority > PriorityCritical)
    /\ ~(c.maxRetries < 0)
    /\ ~(c.retryBackoff < 0)
    /\ ~(c.timeoutAfter < 0)

\* Validator.ValidateCommand: TRUE when it returns nil.  ID and Type are
\* never empty for a command built by NewCommand.
ValidateCommand(c) ==
    IF c.payload = "nil" THEN FALSE
    ELSE IF c.type = CommandTypeUserCreate THEN validateUserCreate(c.payload)
    ELSE validateGenericCommand(c)

IsRetryable(c) == c.status = StatusFailed /\ c.retryCount < c.maxRetries

\* Command.HasTimedOut; Process does not call it.
HasTimedOut(c, now) ==
    IF c.timeoutAfter <= 0 THEN FALSE
    ELSE IF c.processedAt = 0 THEN FALSE
    ELSE now - c.processedAt > c.timeoutAfter

\* Command.ShouldProcess; Process does not call it.
ShouldProcess(c, now) ==
    IF c.status # StatusPending /\ c.status # StatusRetrying THEN FALSE
    ELSE IF c.scheduledFor # 0 /\ now < c.scheduledFor THEN FALSE
    ELSE TRUE

\* calculateNextRetry, called after RetryCount++.
calculateNextRetry(c, now) == now + c.retryBackoff * c.retryCount

\* p.handlers[cmd.Type]: the nil slice for a key the map does not hold.
HandlersFor(cmdType) ==
    IF cmdType \in DOMAIN handlers THEN handlers[cmdType] ELSE <<>>

\* NewProcessor and the command handed to it; the map is given by its keys.
ProcInitWith(keys, inputs) ==
    /\ handlers = [t \in keys |-> <<>>]
    /\ cmd \in inputs
    /\ procPc = "idle"
    /\ procCtx = "live"
    /\ procNow = 1
    /\ procRet = "none"
    /\ procCalls = 0
    /\ handled = <<>>
    /\ registered = {}

\* The processor as the other components see it.
ProcIdle == ProcInitWith({}, {NewCommand(CommandTypeUserCreate, "complete", 2, 3, 5, 30)})

\* Processor.RegisterHandler: appends the handler under every key the map
\* already holds and the handler accepts.
RegisterHandler(h) ==
    /\ procPc = "idle"
    /\ h \notin registered
    /\ registered' = registered \cup {h}
    /\ handlers' = [t \in DOMAIN handlers |->
                        IF CanHandle(h, t) THEN Append(handlers[t], h) ELSE handlers[t]]
    /\ UNCHANGED <<cmd, procPc, procCtx, procNow, procRet, procCalls, handled>>
    /\ ProcFrame

\* Process up to the handler loop: validation, the worker slot, the status
\* update and the handler lookup.  With a cancelled context the select may
\* take either ready case.
ProcessStart(ctx) ==
    /\ procPc = "idle"
    /\ procCalls < MaxProcess
    /\ procCalls' = procCalls + 1
    /\ procCtx' = ctx
    /\ IF ~ValidateCommand(cmd)
       THEN /\ cmd' = [cmd EXCEPT !.status = StatusFailed, !.errCode = "VALIDATION_ERROR"]
            /\ procRet' = "validation"
            /\ procPc' = "idle"
       ELSE \/ /\ ctx = "cancelled"
               /\ procRet' = "ctx"
               /\ procPc' = "idle"
               /\ cmd' = cmd
            \/ IF HandlersFor(cmd.type) = <<>>
               THEN /\ cmd' = [cmd EXCEPT !.status = StatusFailed, !.processedAt = procNow,
                                          !.errCode = "NO_HANDLER"]
                    /\ procRet' = "nohandler"
                    /\ procPc' = "idle"
               ELSE /\ cmd' = [cmd EXCEPT !.status = StatusProcessing, !.processedAt = procNow]
                    /\ procRet' = "none"
                    /\ procPc' = "handling"
    /\ UNCHANGED <<handlers, procNow, handled, registered>>
    /\ ProcFrame

\* The command after a handler returned an error.
AfterHandlerError(c, now) ==
    LET e == [c EXCEPT !.errCode = "HANDLER_ERROR"] IN
    IF IsRetryable(e)
    THEN LET r == [e EXCEPT !.status = StatusRetrying, !.retryCount = @ + 1]
         IN [r EXCEPT !.scheduledFor = calculateNextRetry(r, now)]
    ELSE [e EXCEPT !.status = StatusFailed]

\* Process, the handler loop and the return: the handlers run in order until
\* one returns an error (failAt) or all have returned nil (failAt = 0).
ProcessHandle(failAt) ==
    /\ procPc = "handling"
    /\ LET hs == HandlersFor(cmd.type)
           ran == IF failAt = 0 THEN Len(hs) ELSE failAt
       IN /\ failAt \in 0..Len(hs)
          /\ handled' = handled \o [k \in 1..ran |-> [handler |-> hs[k], type |-> cmd.type]]
          /\ IF failAt = 0
             THEN /\ cmd' = [cmd EXCEPT !.status = StatusCompleted, !.completedAt = procNow]
                  /\ procRet' = "nil"
             ELSE /\ cmd' = AfterHandlerError(cmd, procNow)
                  /\ procRet' = "handler"
    /\ procPc' = "idle"
    /\ UNCHANGED <<handlers, procCtx, procNow, procCalls, registered>>
    /\ ProcFrame

\* The caller's context is cancelled while the handlers run.
CancelProcess ==
    /\ procPc = "handling"
    /\ procCtx = "live"
    /\ procCtx' = "cancelled"
    /\ UNCHANGED <<handlers, cmd, procPc, procNow, procRet, procCalls, handled, registered>>
    /\ ProcFrame

\* Time passes.
ProcTick ==
    /\ procNow < MaxTime
    /\ procNow' = procNow + 1
    /\ UNCHANGED <<handlers, cmd, procPc, procCtx, procRet, procCalls, handled, registered>>
    /\ ProcFrame

\* The processor as NewProcessor builds it.
CommandNext ==
    \/ \E h \in Handlers : RegisterHandler(h)
    \/ \E ctx \in {"live", "cancelled"} : ProcessStart(ctx)
    \/ ProcTick

\* The processor with handlers in its map.
CommandKeyedNext ==
    \/ \E h \in Handlers : RegisterHandler(h)
    \/ \E ctx \in {"live", "cancelled"} : ProcessStart(ctx)
    \/ \E failAt \in 0..1 : ProcessHandle(failAt)
    \/ CancelProcess
    \/ ProcTick

(***************************************************************************)
(*                             CIRCUIT BREAKER                             *)
(***************************************************************************)
\* NewCircuitBreaker(maxFailures, resetTime)
MaxFailures == 2
ResetTime   == 2

NumBreakerCallers == 2
MaxBreakerTime    == 5
BreakerCallers == 1..NumBreakerCallers

ServiceUnavailable == "SERVICE_UNAVAILABLE"

NoGate == [open |-> FALSE, halfOpen |-> FALSE, sinceFailure |-> FALSE,
           sinceOpened |-> FALSE]

BreakerIdle ==
    /\ cbState = "closed"
    /\ cbFailures = 0
    /\ cbLastFailure = 0
    /\ cbNow = 1
    /\ cbPc = [c \in BreakerCallers |-> "idle"]
    /\ cbRet = [c \in BreakerCallers |-> "none"]
    /\ cbFnCalls = [c \in BreakerCallers |-> FALSE]
    /\ cbOpenedAt = 0
    /\ cbSeen = [c \in BreakerCallers |-> NoGate]

\* The gate lets every call through.
GateAlwaysAdmits(state, now, lastFailure) == FALSE

\* Call, the gate: an open breaker turns the call away unless more than
\* resetTime has passed since the last failure.
GateRejects(state, now, lastFailure) ==
    state = "open" /\ ~(now - lastFailure > ResetTime)

\* Call up to cb.mu.Unlock() before fn.
CallEnter(c) ==
    /\ cbPc[c] = "idle"
    /\ cbSeen' = [cbSeen EXCEPT ![c] =
                    [open |-> cbState = "open",
                     halfOpen |-> cbState = "half-open",
                     sinceFailure |-> cbNow - cbLastFailure > ResetTime,
                     sinceOpened |-> cbNow - cbOpenedAt > ResetTime]]
    /\ cbFnCalls' = [cbFnCalls EXCEPT ![c] = FALSE]
    /\ IF GateRejects(cbState, cbNow, cbLastFailure)
       THEN /\ cbRet' = [cbRet EXCEPT ![c] = ServiceUnavailable]
            /\ UNCHANGED <<cbState, cbFailures, cbPc>>
       ELSE /\ cbRet' = [cbRet EXCEPT ![c] = "none"]
            /\ cbPc' = [cbPc EXCEPT ![c] = "fn"]
            /\ IF cbState = "open"
               THEN cbState' = "half-open" /\ cbFailures' = 0
               ELSE UNCHANGED <<cbState, cbFailures>>
    /\ UNCHANGED <<cbLastFailure, cbNow, cbOpenedAt>>
    /\ BreakerFrame

\* err := fn()
CallInvoke(c) ==
    /\ cbPc[c] = "fn"
    /\ cbFnCalls' = [cbFnCalls EXCEPT ![c] = TRUE]
    /\ cbPc' = [cbPc EXCEPT ![c] = "returned"]
    /\ UNCHANGED <<cbState, cbFailures, cbLastFailure, cbNow, cbRet, cbOpenedAt, cbSeen>>
    /\ BreakerFrame

\* Call after fn returned, under the lock again.
CallFinish(c, ok) ==
    /\ cbPc[c] = "returned"
    /\ cbPc' = [cbPc EXCEPT ![c] = "idle"]
    /\ IF ~ok
       THEN /\ cbFailures' = cbFailures + 1
            /\ cbLastFailure' = cbNow
            /\ cbState' = IF cbFailures + 1 >= MaxFailures THEN "open" ELSE cbState
            /\ cbOpenedAt' = IF cbFailures + 1 >= MaxFailures /\ cbState # "open"
                             THEN cbNow ELSE cbOpenedAt
            /\ cbRet' = [cbRet EXCEPT ![c] = "error"]
       ELSE /\ cbState' = IF cbState = "half-open" THEN "closed" ELSE cbState
            /\ cbFailures' = 0
            /\ cbRet' = [cbRet EXCEPT ![c] = "nil"]
            /\ UNCHANGED <<cbLastFailure, cbOpenedAt>>
    /\ UNCHANGED <<cbNow, cbFnCalls, cbSeen>>
    /\ BreakerFrame

\* Time passes.
BreakerTick ==
    /\ cbNow < MaxBreakerTime
    /\ cbNow' = cbNow + 1
    /\ UNCHANGED <<cbState, cbFailures, cbLastFailure, cbPc, cbRet, cbFnCalls,
                   cbOpenedAt, cbSeen>>
    /\ BreakerFrame

BreakerNext ==
    \/ \E c \in BreakerCallers : CallEnter(c)
    \/ \E c \in BreakerCallers : CallInvoke(c)
    \/ \E c \in BreakerCallers, ok \in BOOLEAN : CallFinish(c, ok)
    \/ BreakerTick

(***************************************************************************)
(*                               EVENT ROUTER                              *)
(***************************************************************************)
\* The handlers and the concurrent HandleEvent calls for one event type.
EventHandlers == {"h1", "h2"}
NumEvents == 2
Events == 1..NumEvents

\* The capacities append gives a slice that grows one element at a time, up
\* to the number of handlers.
RouterCaps == {1, 2}
GrowCap(cap) == IF cap = 0 THEN 1 ELSE 2 * cap

NoSlice == [cap |-> 0, len |-> 0]

\* The elements a slice header sees in its backing array now.
SliceOf(hd) == [k \in 1..hd.len |-> rtArrays[hd.cap][k]]

Range(seq) == {seq[k] : k \in 1..Len(seq)}

\* The handlers r.handlers[t] holds.
RouterRegistered == Range(SliceOf(rtHandlers))

\* NewRouter: a map without entries.
RouterInit ==
    /\ rtArrays = [cap \in RouterCaps |-> [k \in 1..cap |-> Nil]]
    /\ rtHandlers = NoSlice
    /\ evPc = [e \in Events |-> "idle"]
    /\ evSnap = [e \in Events |-> NoSlice]
    /\ evIdx = [e \in Events |-> 0]
    /\ evPending = [e \in Events |-> <<>>]
    /\ evInvoked = [e \in Events |-> <<>>]
    /\ evFailed = [e \in Events |-> FALSE]
    /\ evRet = [e \in Events |-> "none"]
    /\ evReg = [e \in Events |-> {}]
    /\ evGone = [e \in Events |-> {}]

\* Router.RegisterHandler: append(r.handlers[t], h), in place while the
\* backing array has room and into a new, larger array otherwise.  A handler
\* is registered while it is not registered.
RouterRegisterHandler(h) ==
    /\ h \notin RouterRegistered
    /\ LET n == rtHandlers.len + 1 IN
        IF rtHandlers.len < rtHandlers.cap
           THEN /\ rtArrays' = [rtArrays EXCEPT ![rtHandlers.cap][n] = h]
                /\ rtHandlers' = [rtHandlers EXCEPT !.len = n]
           ELSE LET nc == GrowCap(rtHandlers.cap) IN
                /\ rtArrays' = [rtArrays EXCEPT ![nc] =
                                  [k \in 1..nc |->
                                      IF k < n THEN SliceOf(rtHandlers)[k]
                                      ELSE IF k = n THEN h ELSE Nil]]
                /\ rtHandlers' = [cap |-> nc, len |-> n]
    /\ UNCHANGED <<evPc, evSnap, evIdx, evPending, evInvoked, evFailed, evRet, evReg,
                   evGone>>
    /\ RouterFrame

\* The index of h in the slice.
IndexOf(h, seq) == CHOOSE i \in 1..Len(seq) : seq[i] = h

\* append(handlers[:i], handlers[i+1:]...): the elements after i are copied
\* one place down inside the same backing array; the last place keeps its
\* element.
ShiftedOut(arr, i, len) ==
    [k \in 1..Len(arr) |-> IF k >= i /\ k < len THEN arr[k + 1] ELSE arr[k]]

\* Router.UnregisterHandler for a registered handler.
RouterUnregisterHandler(h) ==
    /\ h \in RouterRegistered
    /\ LET i == IndexOf(h, SliceOf(rtHandlers)) IN
        rtArrays' = [rtArrays EXCEPT ![rtHandlers.cap] =
                        ShiftedOut(@, i, rtHandlers.len)]
    /\ rtHandlers' = [rtHandlers EXCEPT !.len = @ - 1]
    /\ evGone' = [e \in Events |-> IF evPc[e] = "loop" THEN evGone[e] \cup {h}
                                   ELSE evGone[e]]
    /\ UNCHANGED <<evPc, evSnap, evIdx, evPending, evInvoked, evFailed, evRet, evReg>>
    /\ RouterFrame

\* HandleEvent up to the loop: the slice header is read under RLock; without
\* handlers the call returns nil.
HandleEventStart(e) ==
    /\ evPc[e] = "idle"
    /\ evSnap' = [evSnap EXCEPT ![e] = rtHandlers]
    /\ evReg' = [evReg EXCEPT ![e] = RouterRegistered]
    /\ IF rtHandlers.len = 0
       THEN /\ evPc' = [evPc EXCEPT ![e] = "done"]
            /\ evRet' = [evRet EXCEPT ![e] = Nil]
            /\ UNCHANGED evIdx
       ELSE /\ evPc' = [evPc EXCEPT ![e] = "loop"]
            /\ evIdx' = [evIdx EXCEPT ![e] = 1]
            /\ UNCHANGED evRet
    /\ UNCHANGED <<rtArrays, rtHandlers, evPending, evInvoked, evFailed, evGone>>
    /\ RouterFrame

\* HandleEvent, one turn of the range loop: the element is read from the
\* backing array and a goroutine is started with it.
HandleEventLaunch(e) ==
    /\ evPc[e] = "loop"
    /\ evIdx[e] <= evSnap[e].len
    /\ evPending' = [evPending EXCEPT ![e] = Append(@, rtArrays[evSnap[e].cap][evIdx[e]])]
    /\ evIdx' = [evIdx EXCEPT ![e] = @ + 1]
    /\ UNCHANGED <<rtArrays, rtHandlers, evPc, evSnap, evInvoked, evFailed, evRet, evReg,
                   evGone>>
    /\ RouterFrame

\* The k-th started goroutine runs: h.HandleEvent(handlerCtx, event)
HandlerRun(e, k, ok) ==
    /\ evPc[e] = "loop"
    /\ k \in 1..Len(evPending[e])
    /\ evInvoked' = [evInvoked EXCEPT ![e] = Append(@, evPending[e][k])]
    /\ evPending' = [evPending EXCEPT ![e] =
                        [j \in 1..(Len(@) - 1) |-> IF j < k THEN @[j] ELSE @[j + 1]]]
    /\ evFailed' = [evFailed EXCEPT ![e] = @ \/ ~ok]
    /\ UNCHANGED <<rtArrays, rtHandlers, evPc, evSnap, evIdx, evRet, evReg, evGone>>
    /\ RouterFrame

\* HandleEvent after wg.Wait(): the errors are collected.
HandleEventReturn(e) ==
    /\ evPc[e] = "loop"
    /\ evIdx[e] > evSnap[e].len
    /\ evPending[e] = <<>>
    /\ evPc' = [evPc EXCEPT ![e] = "done"]
    /\ evRet' = [evRet EXCEPT ![e] = IF evFailed[e] THEN "event handling failed" ELSE Nil]
    /\ UNCHANGED <<rtArrays, rtHandlers, evSnap, evIdx, evPending, evInvoked, evFailed,
                   evReg, evGone>>
    /\ RouterFrame

RouterNext ==
    \/ \E h \in EventHandlers : RouterRegisterHandler(h)
    \/ \E h \in EventHandlers : RouterUnregisterHandler(h)
    \/ \E e \in Events : HandleEventStart(e)
    \/ \E e \in Events : HandleEventLaunch(e)
    \/ \E e \in Events, k \in 1..Cardinality(EventHandlers), ok \in BOOLEAN :
          HandlerRun(e, k, ok)
    \/ \E e \in Events : HandleEventReturn(e)

(***************************************************************************)
(*                              LOAD BALANCER                              *)
(***************************************************************************)
\* The backend objects AddBackend can create, each with a URL of its own.
NumBackends == 2
Backends == 1..NumBackends

\* Backend.MaxFailures as AddBackend sets it.
BackendMaxFailures == 3

\* The backends lb.backends holds.
HeldBackends == Range(lbBackends)

\* New: no backends.
LbInit ==
    /\ lbBackends = <<>>
    /\ lbHealthy = [b \in Backends |-> FALSE]
    /\ lbFailures = [b \in Backends |-> 0]
    /\ healthyCount = 0
    /\ lbChecks = {}
    /\ lbUsed = {}

\* AddBackend(url): a new backend object, healthy, is appended.
AddBackend(b) ==
    /\ b \notin lbUsed
    /\ lbUsed' = lbUsed \cup {b}
    /\ lbBackends' = Append(lbBackends, b)
    /\ lbHealthy' = [lbHealthy EXCEPT ![b] = TRUE]
    /\ lbFailures' = [lbFailures EXCEPT ![b] = 0]
    /\ healthyCount' = healthyCount + 1
    /\ UNCHANGED lbChecks
    /\ LbFrame

\* RemoveBackend(url) for the URL of a backend held.
RemoveBackend(b) ==
    /\ b \in HeldBackends
    /\ healthyCount' = IF lbHealthy[b] THEN healthyCount - 1 ELSE healthyCount
    /\ lbBackends' = SelectSeq(lbBackends, LAMBDA x : x # b)
    /\ UNCHANGED <<lbHealthy, lbFailures, lbChecks, lbUsed>>
    /\ LbFrame

\* healthCheck, one tick: go lb.checkBackendHealth(backend) for every backend
\* held.  A backend has at most one check in flight in the model.
healthCheck ==
    /\ ~(HeldBackends \subseteq lbChecks)
    /\ lbChecks' = lbChecks \cup HeldBackends
    /\ UNCHANGED <<lbBackends, lbHealthy, lbFailures, healthyCount, lbUsed>>
    /\ LbFrame

\* checkBackendHealth after http.Get returned, under the lock: the result is
\* applied to the backend object the goroutine was started with.  The failure
\* count stops at MaxFailures in the model; the code compares it with >= only.
checkBackendHealth(b, ok) ==
    /\ b \in lbChecks
    /\ lbChecks' = lbChecks \ {b}
    /\ IF ~ok
       THEN LET f == IF lbFailures[b] < BackendMaxFailures THEN lbFailures[b] + 1
                     ELSE lbFailures[b] IN
            /\ lbFailures' = [lbFailures EXCEPT ![b] = f]
            /\ IF f >= BackendMaxFailures /\ lbHealthy[b]
               THEN /\ lbHealthy' = [lbHealthy EXCEPT ![b] = FALSE]
                    /\ healthyCount' = healthyCount - 1
               ELSE UNCHANGED <<lbHealthy, healthyCount>>
       ELSE /\ IF ~lbHealthy[b]
               THEN /\ lbHealthy' = [lbHealthy EXCEPT ![b] = TRUE]
                    /\ healthyCount' = healthyCount + 1
               ELSE UNCHANGED <<lbHealthy, healthyCount>>
            /\ lbFailures' = [lbFailures EXCEPT ![b] = 0]
    /\ UNCHANGED <<lbBackends, lbUsed>>
    /\ LbFrame

\* HealthyBackendCount
HealthyBackendCount == healthyCount

LbNext ==
    \/ \E b \in Backends : AddBackend(b)
    \/ \E b \in Backends : RemoveBackend(b)
    \/ healthCheck
    \/ \E b \in Backends, ok \in BOOLEAN : checkBackendHealth(b, ok)

(***************************************************************************)
(*                               WORKER POOL                               *)
(***************************************************************************)
\* ProcessorConfig.MaxWorkers, the capacity of Processor.workerPool, and the
\* concurrent Process calls.
MaxWorkers == 2
NumPoolCallers == 4
PoolCallers == 1..NumPoolCallers

PoolInit ==
    /\ workerPool = 0
    /\ wpPc = [c \in PoolCallers |-> "idle"]

\* The send finds room whatever the channel holds.
SlotAlwaysFree(used) == TRUE

\* case p.workerPool <- struct{}{}: the send goes through while the channel
\* holds fewer than MaxWorkers tokens.
SlotFree(used) == used < MaxWorkers

\* Process up to the select over the pool, for a command that passed
\* validation.
PoolArrive(c) ==
    /\ wpPc[c] = "idle"
    /\ wpPc' = [wpPc EXCEPT ![c] = "waiting"]
    /\ UNCHANGED workerPool
    /\ PoolFrame

\* The select takes the send: the call holds a token and goes on to the
\* status update and the handlers.
PoolAcquire(c) ==
    /\ wpPc[c] = "waiting"
    /\ SlotFree(workerPool)
    /\ workerPool' = workerPool + 1
    /\ wpPc' = [wpPc EXCEPT ![c] = "handling"]
    /\ PoolFrame

\* The select takes <-ctx.Done(): Process returns ctx.Err() without a token.
PoolCancel(c) ==
    /\ wpPc[c] = "waiting"
    /\ wpPc' = [wpPc EXCEPT ![c] = "cancelled"]
    /\ UNCHANGED workerPool
    /\ PoolFrame

\* Process returns: the deferred receive gives the token back.
PoolRelease(c) ==
    /\ wpPc[c] = "handling"
    /\ workerPool' = workerPool - 1
    /\ wpPc' = [wpPc EXCEPT ![c] = "returned"]
    /\ PoolFrame

PoolNext ==
    \/ \E c \in PoolCallers : PoolArrive(c)
    \/ \E c \in PoolCallers : PoolAcquire(c)
    \/ \E c \in PoolCallers : PoolCancel(c)
    \/ \E c \in PoolCallers : PoolRelease(c)

(***************************************************************************)
(*                              SPECIFICATIONS                             *)
(***************************************************************************)
OthersIdle == PumpIdle /\ RouterInit /\ LbInit /\ PoolInit

CacheInit ==
    /\ CacheInitWith({"value", "notfound", "error"}, BaseTTLInputs)
    /\ DbInit /\ IngestInit /\ RelayInitWith({"Processor"}) /\ HubInit /\ ProcIdle /\ BreakerIdle /\ OthersIdle

IngestSpecInit ==
    /\ CacheInitWith({"value"}, {60})
    /\ DbInit /\ IngestInit /\ RelayInitWith({"Processor"}) /\ HubInit /\ ProcIdle /\ BreakerIdle /\ OthersIdle

RelayInit ==
    /\ CacheInitWith({"value"}, {60})
    /\ DbInit /\ IngestInit /\ RelayInitWith(RelayKinds) /\ HubInit /\ ProcIdle /\ BreakerIdle /\ OthersIdle

ProcessorInit ==
    /\ CacheInitWith({"value"}, {60})
    /\ DbInit /\ IngestInit /\ RelayInitWith({"Processor"}) /\ HubInit /\ ProcIdle /\ BreakerIdle /\ OthersIdle

HubSpecInit ==
    /\ CacheInitWith({"value"}, {60})
    /\ DbInit /\ IngestInit /\ RelayInitWith({"Processor"}) /\ HubInit /\ ProcIdle /\ BreakerIdle /\ OthersIdle

CacheAdminSpecInit ==
    /\ CacheAdminInit
    /\ DbInit /\ IngestInit /\ RelayInitWith({"Processor"}) /\ HubInit /\ ProcIdle /\ BreakerIdle /\ OthersIdle

\* The command processor as NewProcessor returns it: a map without keys.
CommandInit ==
    /\ CacheInitWith({"value"}, {60})
    /\ DbInit /\ IngestInit /\ RelayInitWith({"Processor"}) /\ HubInit
    /\ ProcInitWith({}, CommandInputs) /\ BreakerIdle /\ OthersIdle

\* The command processor whose map holds a key for every command type, the
\* state RegisterHandler is written for: only from it does Process reach its
\* handler loop.
CommandKeyedInit ==
    /\ CacheInitWith({"value"}, {60})
    /\ DbInit /\ IngestInit /\ RelayInitWith({"Processor"}) /\ HubInit
    /\ ProcInitWith(CmdTypes, CommandInputs) /\ BreakerIdle /\ OthersIdle

BreakerInit ==
    /\ CacheInitWith({"value"}, {60})
    /\ DbInit /\ IngestInit /\ RelayInitWith({"Processor"}) /\ HubInit
    /\ ProcIdle /\ BreakerIdle /\ OthersIdle

RouterSpecInit ==
    /\ CacheInitWith({"value"}, {60})
    /\ DbInit /\ IngestInit /\ RelayInitWith({"Processor"}) /\ HubInit
    /\ ProcIdle /\ BreakerIdle /\ OthersIdle

RouterSpec == RouterSpecInit /\ [][RouterNext]_vars
LoadBalancerSpec == RouterSpecInit /\ [][LbNext]_vars
WorkerPoolSpec == RouterSpecInit /\ [][PoolNext]_vars
FairSessionSpec == HubSpecInit /\ [][SessionNext]_vars /\ SessionFairness
CacheSpec  == CacheInit /\ [][CacheNext]_vars
BreakerSpec == BreakerInit /\ [][BreakerNext]_vars
CommandSpec == CommandInit /\ [][CommandNext]_vars
CommandKeyedSpec == CommandKeyedInit /\ [][CommandKeyedNext]_vars
CacheAdminSpec == CacheAdminSpecInit /\ [][CacheAdminNext]_vars
CacheWriteSpec == CacheAdminSpecInit /\ [][CacheWriteNext]_vars
IngestSpec == IngestSpecInit /\ [][IngestNext]_vars
RelaySpec  == RelayInit /\ [][RelayNext]_vars
HubSpec    == HubSpecInit /\ [][HubNext]_vars
HubShutdownSpec == HubSpecInit /\ [][HubShutdownNext]_vars
ProcessorSpec     == ProcessorInit /\ [][ProcessorNext]_vars
CleanupSpec       == ProcessorInit /\ [][CleanupNext]_vars
RelayShutdownSpec == ProcessorInit /\ [][RelayShutdownNext]_vars
FairProcessorSpec == ProcessorInit /\ [][ProcessorNext]_vars /\ ProcessorFairness

(***************************************************************************)
(*                                 CLAIMS                                  *)
(***************************************************************************)
\* The GetOrFetch callers that all found the key absent (first Get: miss) and
\* have all returned.
AllMissedAndReturned ==
    \A c \in Callers : gfPc[c] = "done" /\ gfFirst[c] = "miss"

\* C1: when N >= 2 concurrent GetOrFetch calls for a key all find it absent,
\* the loader is invoked exactly once in total and all callers return equal
\* results (value, status and error), whatever the loader returns.
C1_SingleFlightCoalesces ==
    AllMissedAndReturned =>
        /\ loaderCalls = 1
        /\ \A c, d \in Callers : gfRet[c] = gfRet[d]

\* C1, the case where it holds: every caller joined the one in-flight call.
C1_CoalescedRun ==
    /\ AllMissedAndReturned
    /\ loaderCalls = 1
    /\ \A c, d \in Callers : gfRet[c] = gfRet[d]

\* The outbox rows written by SubmitCommand calls that carried the key.
OutboxRowsOfKey(key) ==
    {i \in MsgIds : outbox[i] # NoRow /\ \E s \in Submitters : subCmd[s].id = i /\ subCmd[s].key = key}

Accepted(s) == subPc[s] = "done" /\ subRet[s].err = Nil

Aborted(s) == subPc[s] = "done" /\ subRet[s].err # Nil

OnTopic(i) == \E k \in 1..Len(topicLog) : topicLog[k].id = i

\* Position of the first publication of a message that is on the log.
FirstOnTopic(i) ==
    CHOOSE k \in 1..Len(topicLog) :
        topicLog[k].id = i /\ \A n \in 1..(k - 1) : topicLog[n].id # i

\* C4: every message committed to the outbox is eventually published to the
\* event log at least once, relay crashes and restarts included.
C4_EventuallyPublished ==
    \A i \in MsgIds : (outbox[i] # NoRow) ~> OnTopic(i)

\* C5: two messages of one aggregate (same type and id) appear on the topic
\* in the order of their creation, also with several relay instances.
C5_PerAggregateFifo ==
    \A i, j \in MsgIds :
        (/\ OnTopic(i) /\ OnTopic(j)
         /\ outbox[i].aggType = outbox[j].aggType
         /\ outbox[i].aggId = outbox[j].aggId
         /\ outbox[i].createdAt < outbox[j].createdAt)
            => FirstOnTopic(i) < FirstOnTopic(j)

\* The messages a relay instance holds: fetched and not yet marked.
Held(r) ==
    {relayBatch[r][k].id : k \in 1..Len(relayBatch[r])} \cup ({relayCur[r].id} \ {0})

\* C6: no pending outbox row is held by two concurrent relay instances at the
\* same time.
C6_ExclusiveLease ==
    \A r, q \in Relays :
        r # q => \A i \in Held(r) \cap Held(q) : outbox[i].status # StatusPending

\* C8: a message whose status is published never goes back to pending or
\* failed.
C8_PublishedIsFinal ==
    [][\A i \in MsgIds :
          outbox[i].status = StatusPublished => outbox'[i].status = StatusPublished]_vars

\* A relay records the failed publish of the message it is working on.
RecordsFailure(r) ==
    relayPc[r] = "markFailed" /\ relayPc'[r] # "markFailed" /\ crashes' = crashes

\* C9: when publishing a message fails and its retry count is below the
\* maximum, the retry count grows by one and the message stays eligible for
\* a later fetch.
C9_FailedPublishIsRetried ==
    [][\A r \in Relays :
          (RecordsFailure(r) /\ outbox[relayCur[r].id].retry < MaxRetries)
             => /\ outbox'[relayCur[r].id].retry = outbox[relayCur[r].id].retry + 1
                /\ Eligible(outbox'[relayCur[r].id])]_vars

\* C10: a relay marks a message published only if a publish of that message
\* to the event log succeeded.
C10_PublishedOnlyAfterPublish ==
    \A i \in MsgIds : outbox[i].status = StatusPublished => OnTopic(i)

\* How many times payload m was put on the send buffer of session c.
TimesEnqueued(c, m) ==
    Cardinality({k \in 1..Len(enqueued[c]) : enqueued[c][k].msg = m})

\* The hub is done with payload m: it waits neither on the subscription nor
\* on the broadcast channel.
Handled(m) ==
    /\ \A k \in 1..Len(redisSubCh) : redisSubCh[k].msg # m
    /\ \A k \in 1..Len(broadcastCh) : broadcastCh[k].msg # m

\* C7: a payload published with PublishUpdate(R, m) is put on the send buffer
\* of every session joined to R whose buffer was not full, exactly once, and
\* on the buffer of no session that is not joined to R.
C7_RoomFanOut ==
    \A m \in Payloads :
        (published[m] # NoPub /\ Handled(m)) =>
            /\ \A c \in published[m].required :
                   TimesEnqueued(c, m) = 1 \/ m \in dropped[c]
            /\ \A c \in Clients : TimesEnqueued(c, m) <= 1
            /\ \A c \in Clients : \A k \in 1..Len(enqueued[c]) :
                   enqueued[c][k].msg = m => enqueued[c][k].joined

\* C7, a delivery that works: a payload published to the room named "*"
\* reached a session joined to it.
C7_StarRoomDelivered ==
    \E m \in Payloads, c \in Clients :
        /\ published[m] # NoPub /\ Handled(m)
        /\ c \in published[m].required
        /\ TimesEnqueued(c, m) = 1

\* The caller issued its GetOrFetch after the loader had reported not-found.
IssuedAfterNotFound(c) ==
    loaderKind = "notfound" /\ gfPc[c] # "start" /\ gfIssuedAt[c] >= 1

NegativeResult == [val |-> Nil, status |-> "neg", err |-> ErrNotFound]

\* C11: once a loader has reported not-found for the key, every Get and
\* GetOrFetch of the key issued afterwards (within the negative TTL, no
\* positive write in between) returns the negative status with ErrNotFound
\* and does not invoke the loader.
C11_NegativeEntrySuppressesLoader ==
    \A c \in Callers :
        IssuedAfterNotFound(c) =>
            /\ gfFirst[c] = "neg"
            /\ ~gfLoaded[c]
            /\ gfPc[c] = "done" => gfRet[c] = NegativeResult

\* C11, the sequential case: a call issued after the negative entry was
\* written is answered from it.
C11_AnsweredFromNegativeEntry ==
    \E c \in Callers :
        IssuedAfterNotFound(c) /\ gfPc[c] = "done" /\ gfRet[c] = NegativeResult /\ ~gfLoaded[c]

\* C12: when the loader fails with an error other than not-found, neither the
\* entry of the key nor its negative sibling is written, and every caller
\* coalesced onto that load returns the loader's error.
C12_LoaderErrorLeavesCache ==
    loaderKind = "error" =>
        /\ \A k \in RedisKeys : redis[k] = Nil /\ expiry[k] = NoExpiry
        /\ \A c \in Callers :
              gfPc[c] = "done" => gfRet[c] = [val |-> Nil, status |-> "miss", err |-> ErrLoader]

\* C12, its case: a failed load shared by the caller that ran it and a caller
\* that waited for it.
C12_ErrorSharedByWaiter ==
    /\ loaderKind = "error"
    /\ \E c, d \in Callers :
          /\ gfPc[c] = "done" /\ gfLoaded[c] /\ gfRet[c].err = ErrLoader
          /\ gfPc[d] = "done" /\ ~gfLoaded[d] /\ gfRet[d].err = ErrLoader
          /\ loaderCalls = 1

\* C13: for every Set called without an explicit TTL the stored expiry
\* differs from base_ttl by at most 15% of base_ttl in either direction.
C13_JitterWithinFifteenPercent ==
    \A k \in RedisKeys :
        (expiry[k] # NoExpiry /\ ~expiry[k].explicit) =>
            /\ 100 * (expiry[k].ttl - baseTTL) <= 15 * baseTTL
            /\ 100 * (baseTTL - expiry[k].ttl) <= 15 * baseTTL

\* C13, a Set whose jitter is inside the band: base 3600 s, 150 s added.
C13_JitterInsideBand ==
    \E k \in RedisKeys :
        /\ expiry[k] # NoExpiry /\ ~expiry[k].explicit
        /\ expiry[k].ttl > baseTTL
        /\ 100 * (expiry[k].ttl - baseTTL) <= 15 * baseTTL

\* C14: InvalidateByPattern run without concurrent writers does bounded work,
\* and on return every key that matched the pattern is deleted and no key
\* that does not match it is deleted, for any number of matching keys.
C14_InvalidateByPatternExact ==
    ~inv.dirty =>
        /\ inv.pc = "scan" =>
              inv.count <= Cardinality({k \in inv.before : Match(inv.prefix, k)})
        /\ inv.pc = "done" =>
              \A k \in RedisKeys :
                  /\ Match(inv.prefix, k) => redis[k] = Nil
                  /\ (~Match(inv.prefix, k) /\ k \in inv.before) => redis[k] # Nil

\* C14, its case: a finished run over a whole number of batches that left a
\* key outside the pattern in place.
C14_WholeBatchesDeleted ==
    /\ inv.pc = "done" /\ ~inv.dirty
    /\ inv.count > 0 /\ inv.count % InvBatch = 0
    /\ \E k \in inv.before : ~Match(inv.prefix, k) /\ redis[k] # Nil
    /\ \A k \in RedisKeys : Match(inv.prefix, k) => redis[k] = Nil

\* The hub takes a message off its broadcast channel.
FanOutStep == broadcastCh # <<>> /\ broadcastCh' = Tail(broadcastCh)

\* C15: fan-out never blocks on a session's outbound buffer: with a message
\* waiting the hub can always take it; the message is skipped for the
\* members whose buffer is full, put on the buffer of every other member of
\* the room, and the hub goes on to the next message.
C15_FanOutNeverBlocks ==
    /\ []((broadcastCh # <<>> /\ hubPhase # "exited") => ENABLED broadcastMessage)
    /\ [][FanOutStep =>
            LET b == Head(broadcastCh) IN
            \A c \in RoomMembers(b.room) :
                IF Len(sendBuf[c]) < SendCap
                   THEN sendBuf'[c] = Append(sendBuf[c], b.msg)
                   ELSE sendBuf'[c] = sendBuf[c] /\ b.msg \in dropped'[c]]_vars

\* C15, its case: a message was skipped for one member of a room and put on
\* the buffer of another.
C15_SkippedForOneOnly ==
    \E c, d \in Clients, m \in Payloads :
        /\ c # d
        /\ m \in dropped[c] /\ TimesEnqueued(c, m) = 0
        /\ TimesEnqueued(d, m) = 1

\* C16: a drop does not close or unregister the session and leaves it joined
\* to its rooms, and the session gets later messages once its buffer has room.
C16_DropKeepsSession ==
    [][FanOutStep =>
          \A c \in Clients :
              /\ dropped'[c] # dropped[c] =>
                    /\ (c \in clients) = (c \in clients')
                    /\ sendClosed'[c] = sendClosed[c]
                    /\ cliState'[c] = cliState[c]
                    /\ cliRooms'[c] = cliRooms[c]
                    /\ \A room \in RoomNames :
                          (c \in RoomMembers(room)) => (room \in DOMAIN rooms' /\ c \in rooms'[room])
              /\ (dropped[c] # {} /\ c \in RoomMembers(Head(broadcastCh).room)
                    /\ Len(sendBuf[c]) < SendCap)
                    => sendBuf'[c] = Append(sendBuf[c], Head(broadcastCh).msg)]_vars

\* C16, its case: a registered session for which one message was dropped got
\* a later one.
C16_LaterMessageAfterDrop ==
    \E c \in Clients, m, n \in Payloads :
        /\ m < n /\ c \in clients
        /\ m \in dropped[c]
        /\ TimesEnqueued(c, n) = 1

\* C17: a payload a client publishes to a room it has joined is forwarded
\* through the pub/sub substrate on channel realtime:<room>, not handed to the
\* local fan-out directly.
C17_ClientPublishViaSubstrate ==
    \A p \in clientPubs : [channel |-> Channel(p.room), msg |-> p.msg] \in redisLog

\* The hub has nothing left to process for the session.
HubDoneWith(c) ==
    /\ \A k \in 1..Len(registerCh) : registerCh[k] # c
    /\ \A k \in 1..Len(unregisterCh) : unregisterCh[k] # c

\* C18: a session whose read loop has ended is, once the hub has processed
\* its registration and its unregistration in whatever order, absent from the
\* client set and from every room, and its outbound buffer is closed.
C18_DisconnectCleansUp ==
    \A c \in Clients :
        (cliState[c] = "closed" /\ HubDoneWith(c)) =>
            /\ c \notin clients
            /\ \A room \in RoomNames : c \notin RoomMembers(room)
            /\ sendClosed[c]

\* C18, the order that works: registered first, then unregistered.
C18_CleanDisconnect ==
    \E c \in Clients :
        /\ cliState[c] = "closed" /\ HubDoneWith(c)
        /\ c \notin clients /\ sendClosed[c]
        /\ \A room \in RoomNames : c \notin RoomMembers(room)

\* C19: once shutdown has begun no message is put on the buffer of a session
\* and none is delivered from it, whether it came from the substrate or from
\* a client.
C19_NothingAfterShutdown ==
    [][hubPhase = "stopping" => (enqueued' = enqueued /\ sendBuf' = sendBuf)]_vars

ProcessStartStep == procPc = "idle" /\ procCalls' = procCalls + 1

\* A step in which the handler loop ends with a handler's error.
HandlerFailedStep == procPc = "handling" /\ procPc' = "idle" /\ procRet' = "handler"

FinalStatus(c) ==
    \/ c.status \in {StatusCompleted, StatusCancelled}
    \/ c.status = StatusFailed /\ c.retryCount >= c.maxRetries

C23_RegisteredHandlerReceivesCommand ==
    [][(/\ ProcessStartStep
        /\ procCtx' = "live"
        /\ ValidateCommand(cmd)
        /\ \E h \in registered : CanHandle(h, cmd.type))
       => procPc' = "handling"]_vars

\* C24: a command whose priority is outside low..critical, or whose
\* max_retries, retry backoff or timeout is negative, is rejected by
\* validation, for every command type.
C24_BadFieldsRejected ==
    [][(/\ ProcessStartStep
        /\ \/ cmd.priority \notin PriorityLow..PriorityCritical
           \/ cmd.maxRetries < 0
           \/ cmd.retryBackoff < 0
           \/ cmd.timeoutAfter < 0)
       => (procRet' = "validation" /\ cmd'.status = StatusFailed)]_vars

\* C24, where it works: a command of a type without type-specific validation
\* and with a bad field was rejected.
C24_GenericRejected ==
    /\ cmd.type # CommandTypeUserCreate
    /\ cmd.payload # "nil"
    /\ cmd.priority \notin PriorityLow..PriorityCritical
    /\ procRet = "validation"
    /\ cmd.errCode = "VALIDATION_ERROR"

\* The error codes Process writes for causes other than a timeout.
OtherErrorCodes == {"", "VALIDATION_ERROR", "NO_HANDLER", "HANDLER_ERROR"}

\* C25: when the execution of a valid command was cancelled or ran past the
\* command's timeout, the command ends failed with a timeout error code.
C25_CancelledEndsFailedWithTimeout ==
    (/\ procPc = "idle"
     /\ procRet \notin {"none", "validation"}
     /\ procCtx = "cancelled" \/ HasTimedOut(cmd, procNow))
    => (cmd.status = StatusFailed /\ cmd.errCode \notin OtherErrorCodes)

\* C26: a Call that finds the breaker open before reset_time has elapsed
\* since the last failure returns SERVICE_UNAVAILABLE and does not invoke the
\* wrapped function.
C26_OpenBreakerRejects ==
    \A c \in BreakerCallers :
        (cbSeen[c].open /\ ~cbSeen[c].sinceFailure) =>
            /\ cbRet[c] = ServiceUnavailable
            /\ ~cbFnCalls[c]
            /\ cbPc[c] = "idle"

\* C26, its case: one caller is turned away by the open breaker while the
\* other, admitted before the breaker opened, still runs.
C26_RejectedWhileOpen ==
    \E c, d \in BreakerCallers :
        /\ cbState = "open"
        /\ cbSeen[c].open /\ ~cbSeen[c].sinceFailure
        /\ cbRet[c] = ServiceUnavailable
        /\ cbPc[d] = "returned"

\* C27: the breaker is open once max_failures failures have been counted,
\* and a Call made after reset_time has elapsed since the breaker opened is
\* admitted as the half-open probe.
C27_HalfOpenAfterResetTime ==
    /\ cbFailures >= MaxFailures => cbState = "open"
    /\ \A c \in BreakerCallers :
          (cbSeen[c].open /\ cbSeen[c].sinceOpened) => cbRet[c] # ServiceUnavailable

\* C27, the sequential course: a probe admitted after reset_time succeeded
\* and the breaker is closed again.
C27_ProbeClosedBreaker ==
    \E c \in BreakerCallers :
        /\ cbSeen[c].open /\ cbSeen[c].sinceFailure
        /\ cbRet[c] = "nil"
        /\ cbState = "closed"
        /\ cbOpenedAt > 0

\* A step in which CleanupPublishedMessages runs.
CleanupStep == cleanupRet'.runs = cleanupRet.runs + 1

\* A step in which message i is published to its topic.
PublishStep(i) ==
    /\ Len(topicLog') = Len(topicLog) + 1
    /\ topicLog'[Len(topicLog')].id = i

C29_CleanupDeletesExpiredPublished ==
    [][CleanupStep =>
        LET cutoff == clock - cleanupRet'.retention
            old(i) == outbox[i].status = StatusPublished /\ outbox[i].publishedAt < cutoff
        IN /\ \A i \in MsgIds : outbox'[i] = IF old(i) THEN NoRow ELSE outbox[i]
           /\ cleanupRet'.count = Cardinality({i \in MsgIds : old(i)})]_vars

\* C29, its case: a cleanup deleted a row while a pending or failed row and a
\* published row stayed.
C29_DeletedSomeKeptOthers ==
    /\ cleanupRet.count > 0
    /\ \E i \in MsgIds : outbox[i] = NoRow /\ i < nextId
    /\ \E i \in MsgIds : outbox[i].status \in {StatusPending, StatusFailed}
    /\ \E i \in MsgIds : outbox[i].status = StatusPublished

\* C30: after the shutdown token was cancelled every mark of the running
\* batch is still written, and a relay that has exited holds no message it
\* fetched and did not publish and mark.
C30_BatchFinishedBeforeExit ==
    /\ lostMarks = {}
    /\ \A r \in Relays :
          relayPc[r] = "exited" => (relayBatch[r] = <<>> /\ relayCur[r] = NoMsg)

\* C34: when SubmitCommand fails after opening its transaction, nothing of
\* the command stays observable: no outbox row, no idempotency mapping and
\* no cached status entry for its id.
C34_FailedIngestLeavesNothing ==
    \A s \in Submitters :
        (subPc[s] = "done" /\ subCmd[s].id # 0 /\ subRet[s].err # Nil) =>
            /\ outbox[subCmd[s].id] = NoRow
            /\ \A k \in DOMAIN idemKeys : idemKeys[k] # subCmd[s].id
            /\ subCmd[s].id \notin statusCache

\* C34, where it works: a write inside the transaction failed and nothing of
\* the command is left.
C34_AbortedBeforeCache ==
    \E s \in Submitters :
        /\ subPc[s] = "done" /\ subCmd[s].id # 0
        /\ subRet[s].err = "failed to store idempotency key"
        /\ outbox[subCmd[s].id] = NoRow
        /\ subCmd[s].id \notin statusCache

Probe(c) ==
    cbSeen[c].halfOpen \/ (cbSeen[c].open /\ cbSeen[c].sinceFailure)

\* A step in which the wrapped function of probe c has failed and Call
\* returns its error while the breaker is half-open.
ProbeFailedStep(c) ==
    /\ Probe(c)
    /\ cbState = "half-open"
    /\ cbPc[c] = "returned" /\ cbPc'[c] = "idle"
    /\ cbRet'[c] = "error"

\* C37: when the probe admitted while the breaker is half-open fails, the
\* breaker returns to open.
C37_FailedProbeReopens ==
    [][\A c \in BreakerCallers : ProbeFailedStep(c) => cbState' = "open"]_vars

\* The probes whose wrapped function has not returned to Call's bookkeeping.
ProbesInFlight ==
    {c \in BreakerCallers : Probe(c) /\ cbPc[c] \in {"fn", "returned"}}

\* C38: while the breaker is half-open at most one probe is in flight.
C38_OneProbeInFlight ==
    cbState = "half-open" => Cardinality(ProbesInFlight) <= 1

\* C38, the sequential course: one probe in flight in the half-open breaker
\* while the other caller has not called.
C38_SingleProbeRunning ==
    /\ cbState = "half-open"
    /\ Cardinality(ProbesInFlight) = 1
    /\ \E c \in BreakerCallers : cbPc[c] = "idle" /\ c \notin ProbesInFlight

\* A step in which the hub closes the outbound buffer of session c: only
\* unregisterClient removes a session from the client set, and it closes the
\* buffer of the session it removes.
CloseStep(c) == c \in clients /\ c \notin clients'

\* A step in which broadcastMessage offers a payload to the outbound buffer
\* of session c (the select over client.send, taken or not).
SendStep(c) ==
    /\ broadcastCh # <<>>
    /\ broadcastCh' = Tail(broadcastCh)
    /\ c \in RoomMembers(Head(broadcastCh).room)

\* C35: a session's outbound buffer is closed at most once, and the hub
\* never sends on it after it has been closed.
C35_NoCloseOrSendAfterClose ==
    [][\A c \in Clients :
          sendClosed[c] => ~CloseStep(c) /\ ~SendStep(c)]_vars

\* C35, its case: the buffer of a session has been closed and a broadcast for
\* a room that session had joined is the next thing the hub takes.
C35_BroadcastAfterClose ==
    \E c \in Clients :
        /\ sendClosed[c]
        /\ broadcastCh # <<>>
        /\ Head(broadcastCh).room \in cliRooms[c]

Invocations(e, h) == Cardinality({k \in 1..Len(evInvoked[e]) : evInvoked[e][k] = h})

\* C31: a HandleEvent call that has returned has invoked every handler
\* registered for the type exactly once, and has returned nil when all of
\* them succeeded; this for each of the concurrent calls.
C31_EachHandlerOnce ==
    \A e \in Events :
        evPc[e] = "done" =>
            /\ \A h \in evReg[e] \ evGone[e] : Invocations(e, h) = 1
            /\ ~evFailed[e] => evRet[e] = Nil

\* C31, without unregistration: both concurrent calls have returned nil and
\* each of the two registered handlers was invoked once by each call.
C31_TwoEventsTwoHandlers ==
    \A e \in Events :
        /\ evPc[e] = "done" /\ evRet[e] = Nil
        /\ Cardinality(evReg[e]) = 2 /\ evGone[e] = {}
        /\ \A h \in evReg[e] : Invocations(e, h) = 1
        /\ Len(evInvoked[e]) = 2

\* A step in which a goroutine of call e invokes handler h.
InvokeStep(e, h) ==
    /\ Len(evInvoked'[e]) = Len(evInvoked[e]) + 1
    /\ evInvoked'[e][Len(evInvoked'[e])] = h

\* C40: UnregisterHandler(t, h) affects only h: a handler is invoked only
\* while it is registered and at most once by a call, and a call that ran
\* while a handler was unregistered has invoked every other handler.
C40_UnregisterAffectsOnlyItsHandler ==
    /\ [][\A e \in Events, h \in EventHandlers :
            InvokeStep(e, h) => h \in RouterRegistered /\ Invocations(e, h) = 0]_vars
    /\ [](\A e \in Events :
            (evPc[e] = "done" /\ evGone[e] # {}) =>
                \A h \in evReg[e] \ evGone[e] : Invocations(e, h) = 1)

\* C40, where it works: a handler was unregistered before the call's loop
\* reached the backing array; the call has invoked the other handler once
\* and the unregistered one not at all.
C40_UnregisteredNotInvoked ==
    \E e \in Events, h \in EventHandlers :
        /\ evPc[e] = "done"
        /\ h \in evGone[e] /\ Invocations(e, h) = 0
        /\ evReg[e] \ evGone[e] # {}
        /\ \A g \in evReg[e] \ evGone[e] : Invocations(e, g) = 1

\* C39: HealthyBackendCount equals the number of backends held whose Healthy
\* flag is true.
C39_CountMatchesHealthyHeld ==
    HealthyBackendCount = Cardinality({b \in HeldBackends : lbHealthy[b]})

\* C39, where it works: two backends are held, one of them marked unhealthy
\* by its checks, and the count is one.
C39_OneOfTwoUnhealthy ==
    /\ Len(lbBackends) = 2
    /\ \E b \in HeldBackends : ~lbHealthy[b]
    /\ HealthyBackendCount = 1
    /\ Cardinality({b \in HeldBackends : lbHealthy[b]}) = 1

\* The Process calls that hold a worker slot and run their handlers.
InHandler == {c \in PoolCallers : wpPc[c] = "handling"}

\* C33: at most MaxWorkers commands are in handler execution, and each of
\* them holds a slot of the pool.
C33_AtMostMaxWorkers ==
    /\ Cardinality(InHandler) <= MaxWorkers
    /\ workerPool = Cardinality(InHandler)

\* C33, its case: every slot is taken, one call waits and another one gave
\* up waiting when its context was cancelled.
C33_PoolFullAndWaiting ==
    /\ Cardinality(InHandler) = MaxWorkers
    /\ \E c \in PoolCallers : wpPc[c] = "waiting"
    /\ \E c \in PoolCallers : wpPc[c] = "cancelled"

====
